---- MODULE Spec2Model ----
(***************************************************************************)
(* DockerVet: the lexer (tokenize), the instruction parser (parse) and the *)
(* rule execution engine (lint), modelled as state machines.               *)
(*                                                                         *)
(* A JavaScript string is a sequence of one-character strings, so that     *)
(* trim, split, startsWith and the regular expressions of the source are   *)
(* computed character by character.                                        *)
(***************************************************************************)
EXTENDS Integers, Sequences, FiniteSets, Bags, TLC

VARIABLES
    content,            \* the text handed to parse / tokenize
    pc,                 \* position in tokenize / parse / lint
    lines,              \* tokenize: content.split('\n')
    i,                  \* tokenize: 0-based index of the current line
    tokens,             \* tokenize: tokens pushed so far
    fullLine,           \* tokenize: the instruction text being joined
    startLine,          \* tokenize: 1-based first line of the instruction
    heredocDelimiters,  \* tokenize: delimiters still to be closed
    delimIdx,           \* tokenize: index of the delimiter being awaited
    reads,              \* history: every lines[i] the lexer has read
    tokIdx,             \* parse: position of the for-of loop over the tokens
    stages,             \* parse: the stages built so far
    globalArgs,         \* parse: the ARGs seen before the first FROM
    comments,           \* parse: the comment nodes
    inlineIgnores,      \* parse: comment line -> rule ids of its directive
    currentStage,       \* parse: index in stages of the current stage, 0 for null
    ast,                \* the DockerfileAST parse returned
    config,             \* lint: options.config
    ALL_RULES,          \* lint: the registered rules, in registration order
    checks,             \* lint: what rule.check(ctx) does, per rule id
    ignoredRules,       \* lint: new Set(config.ignore)
    ruleIdx,            \* lint: position of the for-of loop over ALL_RULES
    violations,         \* lint: the violations collected so far
    returned,           \* the list lint returned
    emitted,            \* history: the objects the invoked rules returned, as they are now
    log,                \* history: the steps lint has taken
    files,              \* main: the texts of opts.files, in order
    fileIdx,            \* main: position of the for-of loop over opts.files
    rulebook,           \* main: what the checks of the rules do, per text
    history,            \* history: text, AST and violations of every finished parse + lint
    trustedRegistries,  \* lint: the trusted registries of the rule context
    stageHasWorkdir,    \* DL3045: stage alias -> has WORKDIR (own, then inherited)
    stageParent,        \* DL3045: stage alias -> lower-cased image of its FROM
    resolveIdx,         \* DL3045: position of the for-of loop over stageHasWorkdir
    walk,               \* DL3045: the pending call of resolvedWorkdir, with its visited set
    walkLog,            \* history: the aliases the pending query has added to visited
    ruleOut,            \* the violations a rule's check returned
    opts,               \* main: the parsed command line
    results,            \* main: the ProcessResult of every file processed
    maxExit,            \* main: the largest exit code so far
    exited              \* the code handed to process.exit

lexVars == <<lines, i, tokens, fullLine, startLine, heredocDelimiters, delimIdx, reads>>

parseVars == <<tokIdx, stages, globalArgs, comments, inlineIgnores, currentStage, ast>>

mainVars == <<files, fileIdx, rulebook, history>>

lintVars == <<config, ALL_RULES, checks, ignoredRules, trustedRegistries, ruleIdx, violations, returned,
              emitted, log>>

ruleVars == <<stageHasWorkdir, stageParent, resolveIdx, walk, walkLog, ruleOut>>

exitVars == <<opts, results, maxExit, exited>>

(***************************************************************************)
(* Bounds                                                                  *)
(***************************************************************************)
MaxLines == 3

\* lint inputs: violations per rule and the last line a violation is reported at
MaxViol == 2
MaxViolLine == 3

(***************************************************************************)
(* Strings                                                                 *)
(***************************************************************************)
Undefined == "undefined"

\* String.prototype.trim treats these as white space (no line terminator
\* survives split('\n') except '\r').
WhiteSpace == {" ", "\t", "\r"}

UpperLetters == {"A","B","C","D","E","F","G","H","I","J","K","L","M",
                 "N","O","P","Q","R","S","T","U","V","W","X","Y","Z"}
LowerLetters == {"a","b","c","d","e","f","g","h","i","j","k","l","m",
                 "n","o","p","q","r","s","t","u","v","w","x","y","z"}
Digits == {"0","1","2","3","4","5","6","7","8","9"}

RECURSIVE TrimStart(_)
TrimStart(s) ==
    IF s = <<>> THEN <<>>
    ELSE IF Head(s) \in WhiteSpace THEN TrimStart(Tail(s)) ELSE s

RECURSIVE TrimEnd(_)
TrimEnd(s) ==
    IF s = <<>> THEN <<>>
    ELSE IF s[Len(s)] \in WhiteSpace THEN TrimEnd(SubSeq(s, 1, Len(s) - 1)) ELSE s

Trim(s) == TrimEnd(TrimStart(s))

StartsWith(s, c) == s # <<>> /\ s[1] = c

EndsWith(s, c) == s # <<>> /\ s[Len(s)] = c

\* s.slice(0, -1)
DropLast(s) == IF s = <<>> THEN <<>> ELSE SubSeq(s, 1, Len(s) - 1)

\* content.split('\n'): always at least one element
SplitOn(s, sep, n) ==
    LET P == {k \in 1..Len(s) : s[k] = sep}
        from == CHOOSE k \in P \cup {0} : Cardinality({j \in P \cup {0} : j < k}) = n - 1
        to == CHOOSE k \in P \cup {Len(s) + 1} : Cardinality({j \in P : j < k}) = n - 1
    IN  SubSeq(s, from + 1, to - 1)

Split(s, sep) == [n \in 1..(Cardinality({k \in 1..Len(s) : s[k] = sep}) + 1) |-> SplitOn(s, sep, n)]

\* the text whose split('\n') is ls
RECURSIVE JoinLines(_)
JoinLines(ls) ==
    IF Len(ls) = 0 THEN <<>>
    ELSE IF Len(ls) = 1 THEN ls[1]
    ELSE ls[1] \o <<"\n">> \o JoinLines(Tail(ls))

\* ---------------------------------------------------------------------------
\* extractHeredocDelimiters: the matches of a regular expression with the g
\* flag: two '<', an optional '-', white space, then a double-quoted word, a
\* single-quoted word or an identifier [A-Za-z_][A-Za-z0-9_]* .
\* ---------------------------------------------------------------------------
IdentStart == UpperLetters \cup LowerLetters \cup {"_"}
IdentChar == IdentStart \cup Digits

CharAt(s, p) == IF p >= 1 /\ p <= Len(s) THEN s[p] ELSE Undefined

RECURSIVE SkipSpaces(_, _)
SkipSpaces(s, p) == IF CharAt(s, p) \in WhiteSpace THEN SkipSpaces(s, p + 1) ELSE p

\* first position >= p holding c, or 0
RECURSIVE IndexFrom(_, _, _)
IndexFrom(s, c, p) ==
    IF p > Len(s) THEN 0
    ELSE IF s[p] = c THEN p ELSE IndexFrom(s, c, p + 1)

\* last position of the identifier that starts at p
RECURSIVE IdentEnd(_, _)
IdentEnd(s, p) == IF CharAt(s, p + 1) \in IdentChar THEN IdentEnd(s, p + 1) ELSE p

NoMatch == [ok |-> FALSE, delim |-> <<>>, end |-> 0]

\* the match of the heredoc regex anchored at position p; end is the
\* position after the match (the regex's lastIndex)
MatchHeredocAt(s, p) ==
    IF ~(CharAt(s, p) = "<" /\ CharAt(s, p + 1) = "<") THEN NoMatch
    ELSE LET q0 == IF CharAt(s, p + 2) = "-" THEN p + 3 ELSE p + 2
             q  == SkipSpaces(s, q0)
             c  == CharAt(s, q)
         IN  IF c = "\"" \/ c = "'"
             THEN LET j == IndexFrom(s, c, q + 1)
                  IN  IF j > q + 1
                      THEN [ok |-> TRUE, delim |-> SubSeq(s, q + 1, j - 1), end |-> j + 1]
                      ELSE NoMatch
             ELSE IF c \in IdentStart
             THEN LET e == IdentEnd(s, q)
                  IN  [ok |-> TRUE, delim |-> SubSeq(s, q, e), end |-> e + 1]
             ELSE NoMatch

RECURSIVE ScanHeredoc(_, _)
ScanHeredoc(s, p) ==
    IF p > Len(s) THEN <<>>
    ELSE LET m == MatchHeredocAt(s, p)
         IN  IF m.ok THEN << m.delim >> \o ScanHeredoc(s, m.end)
             ELSE ScanHeredoc(s, p + 1)

extractHeredocDelimiters(line) == ScanHeredoc(line, 1)

(***************************************************************************)
(* tokenize                                                                *)
(***************************************************************************)
Token(type, line, value, raw) == [type |-> type, line |-> line, value |-> value, raw |-> raw]

\* lines[k] for a 0-based k; undefined outside the array
LineAt(k) == IF k >= 0 /\ k < Len(lines) THEN lines[k + 1] ELSE Undefined

\* one evaluation of lines[k] while the token number Len(tokens)+1 is built; kind
\* tells where: "own" (a blank or comment line), "start" (the first line of an
\* instruction), "cont" (the continuation loop), "heredoc" (the heredoc loop)
Read(k, kind) == [idx |-> k + 1, kind |-> kind, tok |-> Len(tokens) + 1]

\* const lines = content.split('\n'); const tokens = []; let i = 0;
TokenizeCall ==
    /\ pc = "tokenize"
    /\ lines' = Split(content, "\n")
    /\ tokens' = <<>>
    /\ i' = 0
    /\ reads' = <<>>
    /\ pc' = "loop"
    /\ UNCHANGED <<ruleVars, exitVars, parseVars, lintVars, mainVars, content, fullLine, startLine, heredocDelimiters, delimIdx>>

\* while (i < lines.length) fails: return tokens
LoopExit ==
    /\ pc = "loop"
    /\ ~(i < Len(lines))
    /\ pc' = "tokenized"
    /\ UNCHANGED <<ruleVars, exitVars, parseVars, lintVars, mainVars, content, lexVars>>

\* trimmed === '' : EMPTY token
TokEmpty ==
    /\ pc = "loop"
    /\ i < Len(lines)
    /\ Trim(LineAt(i)) = <<>>
    /\ tokens' = Append(tokens, Token("EMPTY", i + 1, <<>>, LineAt(i)))
    /\ reads' = Append(reads, Read(i, "own"))
    /\ i' = i + 1
    /\ UNCHANGED <<ruleVars, exitVars, parseVars, lintVars, mainVars, content, pc, lines, fullLine, startLine, heredocDelimiters, delimIdx>>

\* trimmed.startsWith('#') : COMMENT token
TokComment ==
    /\ pc = "loop"
    /\ i < Len(lines)
    /\ Trim(LineAt(i)) # <<>>
    /\ StartsWith(Trim(LineAt(i)), "#")
    /\ tokens' = Append(tokens, Token("COMMENT", i + 1, Trim(LineAt(i)), LineAt(i)))
    /\ reads' = Append(reads, Read(i, "own"))
    /\ i' = i + 1
    /\ UNCHANGED <<ruleVars, exitVars, parseVars, lintVars, mainVars, content, pc, lines, fullLine, startLine, heredocDelimiters, delimIdx>>

\* let fullLine = raw; const startLine = i + 1;
TokInstruction ==
    /\ pc = "loop"
    /\ i < Len(lines)
    /\ Trim(LineAt(i)) # <<>>
    /\ ~StartsWith(Trim(LineAt(i)), "#")
    /\ fullLine' = LineAt(i)
    /\ startLine' = i + 1
    /\ reads' = Append(reads, Read(i, "start"))
    /\ pc' = "continuation"
    /\ UNCHANGED <<ruleVars, exitVars, parseVars, lintVars, mainVars, content, lines, i, tokens, heredocDelimiters, delimIdx>>

\* the continuation loop without its `i + 1 < lines.length` bound
ContinuationGuard_NoBound == EndsWith(TrimEnd(fullLine), "\\")

\* while (fullLine.trimEnd().endsWith('\\') && i + 1 < lines.length)
ContinuationGuard == EndsWith(TrimEnd(fullLine), "\\") /\ i + 1 < Len(lines)

\* one iteration of the continuation loop that joins a comment line like any
\* other line
ContinuationStep_JoinsComment ==
    /\ pc = "continuation"
    /\ ContinuationGuard
    /\ i' = i + 1
    /\ IF LineAt(i + 1) = Undefined
       THEN /\ pc' = "raised"
            /\ UNCHANGED <<fullLine, reads>>
       ELSE /\ LET nextTrimmed == Trim(LineAt(i + 1))
               IN  fullLine' = DropLast(TrimEnd(fullLine)) \o <<" ">> \o nextTrimmed
            /\ reads' = Append(reads, Read(i + 1, "cont"))
            /\ pc' = pc
    /\ UNCHANGED <<ruleVars, exitVars, parseVars, lintVars, mainVars, content, lines, tokens, startLine, heredocDelimiters, delimIdx>>

\* one iteration of the continuation loop; lines[i].trim() of an undefined
\* element raises a TypeError
ContinuationStep ==
    /\ pc = "continuation"
    /\ ContinuationGuard
    /\ i' = i + 1
    /\ IF LineAt(i + 1) = Undefined
       THEN /\ pc' = "raised"
            /\ UNCHANGED <<fullLine, reads>>
       ELSE /\ LET nextTrimmed == Trim(LineAt(i + 1))
               IN  fullLine' = IF StartsWith(nextTrimmed, "#")
                               THEN DropLast(TrimEnd(fullLine)) \o <<" ", "\\">>
                               ELSE DropLast(TrimEnd(fullLine)) \o <<" ">> \o nextTrimmed
            /\ reads' = Append(reads, Read(i + 1, "cont"))
            /\ pc' = pc
    /\ UNCHANGED <<ruleVars, exitVars, parseVars, lintVars, mainVars, content, lines, tokens, startLine, heredocDelimiters, delimIdx>>

\* the continuation loop is left: heredoc delimiters are extracted; with
\* none the token is pushed and i incremented, otherwise the heredoc loop
\* is entered after i++
ContinuationExit ==
    /\ pc = "continuation"
    /\ ~ContinuationGuard
    /\ heredocDelimiters' = extractHeredocDelimiters(Trim(fullLine))
    /\ delimIdx' = 0
    /\ i' = i + 1
    /\ pc' = IF Len(extractHeredocDelimiters(Trim(fullLine))) > 0 THEN "heredoc" ELSE "loop"
    /\ tokens' = IF Len(extractHeredocDelimiters(Trim(fullLine))) > 0
                 THEN tokens
                 ELSE Append(tokens, Token("INSTRUCTION", startLine, Trim(fullLine), fullLine))
    /\ UNCHANGED <<ruleVars, exitVars, parseVars, lintVars, mainVars, content, lines, fullLine, startLine, reads>>

\* while (i < lines.length && delimIdx < heredocDelimiters.length)
HeredocGuard == i < Len(lines) /\ delimIdx < Len(heredocDelimiters)

\* HeredocStep that joins the body line to the instruction text, as the
\* continuation loop does
HeredocStep_JoinsBody ==
    /\ pc = "heredoc"
    /\ HeredocGuard
    /\ delimIdx' = IF Trim(LineAt(i)) = heredocDelimiters[delimIdx + 1]
                   THEN delimIdx + 1 ELSE delimIdx
    /\ fullLine' = fullLine \o <<" ">> \o Trim(LineAt(i))
    /\ reads' = Append(reads, Read(i, "heredoc"))
    /\ i' = i + 1
    /\ UNCHANGED <<ruleVars, exitVars, parseVars, lintVars, mainVars, content, pc, lines, tokens, startLine, heredocDelimiters>>

\* HeredocStep that lets a line close the awaited delimiter when it matches
\* any delimiter of the instruction
HeredocStep_AnyOrder ==
    /\ pc = "heredoc"
    /\ HeredocGuard
    /\ IF LineAt(i) = Undefined
       THEN /\ pc' = "raised"
            /\ UNCHANGED <<delimIdx, reads>>
       ELSE /\ delimIdx' = IF \E d \in DOMAIN heredocDelimiters : Trim(LineAt(i)) = heredocDelimiters[d]
                           THEN delimIdx + 1 ELSE delimIdx
            /\ reads' = Append(reads, Read(i, "heredoc"))
            /\ pc' = pc
    /\ i' = i + 1
    /\ UNCHANGED <<ruleVars, exitVars, parseVars, lintVars, mainVars, content, lines, tokens, fullLine, startLine, heredocDelimiters>>

\* one iteration of the heredoc loop; lines[i].trim() of an undefined element
\* raises a TypeError
HeredocStep ==
    /\ pc = "heredoc"
    /\ HeredocGuard
    /\ IF LineAt(i) = Undefined
       THEN /\ pc' = "raised"
            /\ UNCHANGED <<delimIdx, reads>>
       ELSE /\ delimIdx' = IF Trim(LineAt(i)) = heredocDelimiters[delimIdx + 1]
                           THEN delimIdx + 1 ELSE delimIdx
            /\ reads' = Append(reads, Read(i, "heredoc"))
            /\ pc' = pc
    /\ i' = i + 1
    /\ UNCHANGED <<ruleVars, exitVars, parseVars, lintVars, mainVars, content, lines, tokens, fullLine, startLine, heredocDelimiters>>

\* HeredocExit without its `continue`: control falls through to the second
\* push and the i++ of the plain-instruction path
HeredocExit_NoContinue ==
    /\ pc = "heredoc"
    /\ ~HeredocGuard
    /\ LET t == Token("INSTRUCTION", startLine, Trim(fullLine), fullLine)
       IN  tokens' = tokens \o <<t, t>>
    /\ i' = i + 1
    /\ pc' = "loop"
    /\ UNCHANGED <<ruleVars, exitVars, parseVars, lintVars, mainVars, content, lines, fullLine, startLine, heredocDelimiters, delimIdx, reads>>

\* the heredoc loop is left: the token is pushed; continue
HeredocExit ==
    /\ pc = "heredoc"
    /\ ~HeredocGuard
    /\ tokens' = Append(tokens, Token("INSTRUCTION", startLine, Trim(fullLine), fullLine))
    /\ pc' = "loop"
    /\ UNCHANGED <<ruleVars, exitVars, parseVars, lintVars, mainVars, content, lines, i, fullLine, startLine, heredocDelimiters, delimIdx, reads>>

NextTok ==
    \/ TokenizeCall
    \/ LoopExit
    \/ TokEmpty
    \/ TokComment
    \/ TokInstruction
    \/ ContinuationStep
    \/ ContinuationExit
    \/ HeredocStep
    \/ HeredocExit

(***************************************************************************)
(* parse                                                                   *)
(***************************************************************************)
UpperOf == [a |-> "A", b |-> "B", c |-> "C", d |-> "D", e |-> "E", f |-> "F",
            g |-> "G", h |-> "H", i |-> "I", j |-> "J", k |-> "K", l |-> "L",
            m |-> "M", n |-> "N", o |-> "O", p |-> "P", q |-> "Q", r |-> "R",
            s |-> "S", t |-> "T", u |-> "U", v |-> "V", w |-> "W", x |-> "X",
            y |-> "Y", z |-> "Z"]

ToUpperChar(c) == IF c \in LowerLetters THEN UpperOf[c] ELSE c

\* String.prototype.toUpperCase
ToUpperCase(s) == [k \in 1..Len(s) |-> ToUpperChar(s[k])]

FROM == <<"F","R","O","M">>
ARG == <<"A","R","G">>
RUN == <<"R","U","N">>
ONBUILD == <<"O","N","B","U","I","L","D">>
COMMENT == <<"C","O","M","M","E","N","T">>
WORKDIR == <<"W","O","R","K","D","I","R">>
COPY == <<"C","O","P","Y">>

VALID_INSTRUCTIONS ==
    { FROM, RUN, <<"C","M","D">>, <<"L","A","B","E","L">>, <<"E","X","P","O","S","E">>,
      <<"E","N","V">>, <<"A","D","D">>, <<"C","O","P","Y">>,
      <<"E","N","T","R","Y","P","O","I","N","T">>, <<"V","O","L","U","M","E">>,
      <<"U","S","E","R">>, <<"W","O","R","K","D","I","R">>, ARG, ONBUILD,
      <<"S","T","O","P","S","I","G","N","A","L">>,
      <<"H","E","A","L","T","H","C","H","E","C","K">>, <<"S","H","E","L","L">>,
      <<"M","A","I","N","T","A","I","N","E","R">> }

\* the keywords whose nodes are built with raw = `${type} ${args}`
TypedKeywords ==
    { FROM, <<"C","O","P","Y">>, <<"A","D","D">>, <<"E","X","P","O","S","E">>,
      <<"H","E","A","L","T","H","C","H","E","C","K">>, <<"E","N","V">>, ARG,
      <<"L","A","B","E","L">>, <<"U","S","E","R">>, <<"W","O","R","K","D","I","R">> }

\* s.slice(from) for a 0-based from
SliceFrom(s, from) == SubSeq(s, from + 1, Len(s))

\* a JavaScript Map as the sequence of its entries in insertion order
MapHas(m, key) == \E e \in DOMAIN m : m[e].key = key

MapGet(m, key) ==
    IF MapHas(m, key) THEN m[CHOOSE e \in DOMAIN m : m[e].key = key].value ELSE Undefined

MapSet(m, key, value) ==
    IF MapHas(m, key)
    THEN [e \in DOMAIN m |-> IF m[e].key = key THEN [key |-> key, value |-> value] ELSE m[e]]
    ELSE Append(m, [key |-> key, value |-> value])

\* o.name || d, for a property that is an array or an object when it is there
FieldOr(o, name, d) == IF name \in DOMAIN o THEN o[name] ELSE d

\* undefined where a string is expected
NoString == <<Undefined>>

\* o.name for a property that is a string when it is there
StringField(o, name) == FieldOr(o, name, NoString)

\* whether a string or undefined is truthy
Truthy(s) == s \notin {NoString, <<>>}

\* m.get(key) ?? d
MapGetOr(m, key, d) == IF MapHas(m, key) THEN MapGet(m, key) ELSE d

\* the last position of the run of characters of S that starts at p
\* (p - 1 when s[p] is not in S)
RECURSIVE RunEnd(_, _, _)
RunEnd(s, p, S) == IF p <= Len(s) /\ s[p] \in S THEN RunEnd(s, p + 1, S) ELSE p - 1

\* the last position of the run of non-space characters that starts at p
RECURSIVE NonSpaceEnd(_, _)
NonSpaceEnd(s, p) == IF p <= Len(s) /\ s[p] \notin WhiteSpace THEN NonSpaceEnd(s, p + 1) ELSE p - 1

\* the match of /^--([a-zA-Z][a-zA-Z0-9-]*)(?:=(\S+)|\s+(?!--|\[)(\S+))?/ on t:
\* the flag's name, its value (m[2] ?? m[3] ?? 'true') and the length of m[0]
FlagMatch(t) ==
    IF ~(Len(t) >= 3 /\ t[1] = "-" /\ t[2] = "-" /\ t[3] \in UpperLetters \cup LowerLetters)
    THEN [ok |-> FALSE, name |-> <<>>, value |-> <<>>, len |-> 0]
    ELSE LET e  == RunEnd(t, 4, UpperLetters \cup LowerLetters \cup Digits \cup {"-"})
             nm == SubSeq(t, 3, e)
             q  == SkipSpaces(t, e + 1)
         IN  IF CharAt(t, e + 1) = "=" /\ NonSpaceEnd(t, e + 2) >= e + 2
             THEN [ok |-> TRUE, name |-> nm, value |-> SubSeq(t, e + 2, NonSpaceEnd(t, e + 2)),
                   len |-> NonSpaceEnd(t, e + 2)]
             ELSE IF q > e + 1 /\ q <= Len(t) /\ t[q] # "["
                     /\ ~(t[q] = "-" /\ CharAt(t, q + 1) = "-")
             THEN [ok |-> TRUE, name |-> nm, value |-> SubSeq(t, q, NonSpaceEnd(t, q)),
                   len |-> NonSpaceEnd(t, q)]
             ELSE [ok |-> TRUE, name |-> nm, value |-> <<"t","r","u","e">>, len |-> e]

\* the while loop of parseFlags
RECURSIVE ParseFlagsLoop(_, _)
ParseFlagsLoop(flags, rest) ==
    LET t == Trim(rest)
        m == FlagMatch(t)
    IN  IF ~(Len(t) >= 2 /\ t[1] = "-" /\ t[2] = "-") \/ ~m.ok
        THEN [flags |-> flags, rest |-> rest]
        ELSE ParseFlagsLoop(MapSet(flags, m.name, m.value), Trim(SubSeq(t, m.len + 1, Len(t))))

parseFlags(args) == ParseFlagsLoop(<<>>, args)

\* the words of s from position p on
RECURSIVE WordsFrom(_, _)
WordsFrom(s, p) ==
    LET q == SkipSpaces(s, p)
    IN  IF q > Len(s) THEN <<>>
        ELSE << SubSeq(s, q, NonSpaceEnd(s, q)) >> \o WordsFrom(s, NonSpaceEnd(s, q) + 1)

\* s.trim().split(/\s+/): one empty string when there is no word
SplitWhiteSpace(s) == IF Trim(s) = <<>> THEN << <<>> >> ELSE WordsFrom(s, 1)

\* s.split(c, 2)
SplitTwo(s, c) == LET all == Split(s, c) IN IF Len(all) > 2 THEN SubSeq(all, 1, 2) ELSE all

Includes(s, c) == \E k \in DOMAIN s : s[k] = c

parseFromArgs(args, line) ==
    LET pf        == parseFlags(args)
        parts     == SplitWhiteSpace(pf.rest)
        imageSpec == parts[1]
        alias     == IF Len(parts) >= 3 /\ ToUpperCase(parts[2]) = <<"A","S">> THEN parts[3] ELSE NoString
        atSplit   == SplitTwo(imageSpec, "@")
        colSplit  == SplitTwo(imageSpec, ":")
    IN  [type |-> FROM, raw |-> FROM \o <<" ">> \o args, line |-> line, arguments |-> args,
         flags |-> pf.flags,
         image |-> IF Includes(imageSpec, "@") THEN atSplit[1]
                   ELSE IF Includes(imageSpec, ":") THEN colSplit[1] ELSE imageSpec,
         tag |-> IF ~Includes(imageSpec, "@") /\ Includes(imageSpec, ":") THEN colSplit[2] ELSE NoString,
         digest |-> IF Includes(imageSpec, "@") THEN atSplit[2] ELSE NoString,
         alias |-> alias,
         platform |-> MapGetOr(pf.flags, <<"p","l","a","t","f","o","r","m">>, NoString)]

\* the default value with one pair of surrounding quotes removed
StripQuotes(v) ==
    IF \E c \in {"\"", "'"} : StartsWith(v, c) /\ EndsWith(v, c)
    THEN SubSeq(v, 2, Len(v) - 1) ELSE v

parseArgArgs(args, line) ==
    LET trimmed == Trim(args)
        eqIdx   == IndexFrom(trimmed, "=", 1) - 1
    IN  [type |-> ARG, raw |-> ARG \o <<" ">> \o args, line |-> line, arguments |-> args,
         name |-> IF eqIdx > 0 THEN SubSeq(trimmed, 1, eqIdx) ELSE trimmed,
         defaultValue |-> IF eqIdx > 0 THEN StripQuotes(SliceFrom(trimmed, eqIdx + 1)) ELSE NoString]

\* the type, raw text, line and argument text of the node parseInstruction
\* builds (ONBUILD also carries its recursively parsed inner instruction)
\* the loop of parseShellWords from position p on: st holds words, current,
\* inQuote (the open quote character, <<>> for null) and escape
RECURSIVE ShellWordsLoop(_, _, _)
ShellWordsLoop(s, p, st) ==
    IF p > Len(s)
    THEN IF st.current # <<>> THEN Append(st.words, st.current) ELSE st.words
    ELSE LET ch == s[p]
         IN  ShellWordsLoop(s, p + 1,
                IF st.escape THEN [st EXCEPT !.current = Append(@, ch), !.escape = FALSE]
                ELSE IF ch = "\\" /\ st.inQuote = <<>> THEN [st EXCEPT !.escape = TRUE]
                ELSE IF <<ch>> = st.inQuote THEN [st EXCEPT !.inQuote = <<>>]
                ELSE IF st.inQuote = <<>> /\ ch \in {"\"", "'"} THEN [st EXCEPT !.inQuote = <<ch>>]
                ELSE IF st.inQuote = <<>> /\ ch \in WhiteSpace
                THEN (IF st.current # <<>>
                      THEN [st EXCEPT !.words = Append(@, st.current), !.current = <<>>]
                      ELSE st)
                ELSE [st EXCEPT !.current = Append(@, ch)])

parseShellWords(s) ==
    ShellWordsLoop(s, 1, [words |-> <<>>, current |-> <<>>, inQuote |-> <<>>, escape |-> FALSE])

\* a JSON string that starts at the quote at position p: its text and the
\* position after its closing quote; the escapes \" \\ \/ are read, any other
\* backslash and a raw tab or line break make the text invalid
RECURSIVE JsonString(_, _, _)
JsonString(s, p, acc) ==
    IF p > Len(s) \/ s[p] \in {"\t", "\n", "\r"} THEN [ok |-> FALSE, text |-> <<>>, end |-> 0]
    ELSE IF s[p] = "\"" THEN [ok |-> TRUE, text |-> acc, end |-> p + 1]
    ELSE IF s[p] = "\\"
    THEN (IF CharAt(s, p + 1) \in {"\"", "\\", "/"}
          THEN JsonString(s, p + 2, Append(acc, s[p + 1]))
          ELSE [ok |-> FALSE, text |-> <<>>, end |-> 0])
    ELSE JsonString(s, p + 1, Append(acc, s[p]))

\* the elements of a JSON array of strings from position p on (after '[' or
\* ','); first tells that ']' may follow at once
RECURSIVE JsonElements(_, _, _, _)
JsonElements(s, p, acc, first) ==
    LET q == SkipSpaces(s, p)
    IN  IF first /\ CharAt(s, q) = "]"
        THEN [ok |-> SkipSpaces(s, q + 1) > Len(s), items |-> acc]
        ELSE IF CharAt(s, q) # "\"" THEN [ok |-> FALSE, items |-> <<>>]
        ELSE LET str == JsonString(s, q + 1, <<>>)
                 r   == SkipSpaces(s, str.end)
             IN  IF ~str.ok THEN [ok |-> FALSE, items |-> <<>>]
                 ELSE IF CharAt(s, r) = ","
                 THEN JsonElements(s, r + 1, Append(acc, str.text), FALSE)
                 ELSE IF CharAt(s, r) = "]"
                 THEN [ok |-> SkipSpaces(s, r + 1) > Len(s), items |-> Append(acc, str.text)]
                 ELSE [ok |-> FALSE, items |-> <<>>]

\* parseJsonArray(s): ok is false for null
parseJsonArray(s) ==
    LET trimmed == Trim(s)
    IN  IF ~(StartsWith(trimmed, "[") /\ EndsWith(trimmed, "]"))
        THEN [ok |-> FALSE, items |-> <<>>]
        ELSE JsonElements(trimmed, 2, <<>>, TRUE)

parseCopyArgs_ShellWordsOnly(type, args, line) ==
    LET pf    == parseFlags(args)
        parts == parseShellWords(Trim(pf.rest))
    IN  [type |-> type, raw |-> type \o <<" ">> \o args, line |-> line, arguments |-> args,
         flags |-> pf.flags,
         from |-> MapGetOr(pf.flags, <<"f","r","o","m">>, NoString),
         sources |-> SubSeq(parts, 1, Len(parts) - 1),
         destination |-> IF Len(parts) > 0 THEN parts[Len(parts)] ELSE <<>>,
         chown |-> MapGetOr(pf.flags, <<"c","h","o","w","n">>, NoString),
         chmod |-> MapGetOr(pf.flags, <<"c","h","m","o","d">>, NoString)]

parseCopyArgs(type, args, line) ==
    LET pf      == parseFlags(args)
        jsonArr == parseJsonArray(Trim(pf.rest))
        parts   == IF jsonArr.ok THEN jsonArr.items ELSE parseShellWords(Trim(pf.rest))
    IN  [type |-> type, raw |-> type \o <<" ">> \o args, line |-> line, arguments |-> args,
         flags |-> pf.flags,
         from |-> MapGetOr(pf.flags, <<"f","r","o","m">>, NoString),
         sources |-> SubSeq(parts, 1, Len(parts) - 1),
         destination |-> IF Len(parts) > 0 THEN parts[Len(parts)] ELSE <<>>,
         chown |-> MapGetOr(pf.flags, <<"c","h","o","w","n">>, NoString),
         chmod |-> MapGetOr(pf.flags, <<"c","h","m","o","d">>, NoString)]

\* the value alternatives of the ENV regex at position q, after the '=':
\* "([^"]*?)" or '([^']*?)' or (\S*); end is the last position of the match
EnvValueAt(t, q) ==
    IF CharAt(t, q) \in {"\"", "'"} /\ IndexFrom(t, t[q], q + 1) > 0
    THEN [value |-> SubSeq(t, q + 1, IndexFrom(t, t[q], q + 1) - 1), end |-> IndexFrom(t, t[q], q + 1)]
    ELSE [value |-> SubSeq(t, q, NonSpaceEnd(t, q)), end |-> NonSpaceEnd(t, q)]

\* the exec loop of /([A-Za-z_][A-Za-z0-9_]*)=(?:...)/g from position p on
RECURSIVE EnvScan(_, _)
EnvScan(t, p) ==
    IF p > Len(t) THEN <<>>
    ELSE IF t[p] \in IdentStart /\ CharAt(t, IdentEnd(t, p) + 1) = "="
    THEN LET v == EnvValueAt(t, IdentEnd(t, p) + 2)
         IN  << [key |-> SubSeq(t, p, IdentEnd(t, p)), value |-> v.value] >> \o EnvScan(t, v.end + 1)
    ELSE EnvScan(t, p + 1)

\* val with one layer of surrounding quotes of one kind removed
StripValueQuotes(val) ==
    IF \E c \in {"\"", "'"} : StartsWith(val, c) /\ EndsWith(val, c)
    THEN SubSeq(val, 2, Len(val) - 1) ELSE val

parseEnvArgs(args, line) ==
    LET trimmed  == Trim(args)
        scanned  == EnvScan(trimmed, 1)
        eqIdx    == IndexFrom(trimmed, "=", 1) - 1
        spaceIdx == IndexFrom(trimmed, " ", 1) - 1
        pairs    == IF Includes(trimmed, "=")
                    THEN (IF Len(scanned) = 0 /\ eqIdx > 0
                          THEN << [key |-> SubSeq(trimmed, 1, eqIdx), value |-> SliceFrom(trimmed, eqIdx + 1)] >>
                          ELSE scanned)
                    ELSE IF spaceIdx > 0
                    THEN << [key |-> SubSeq(trimmed, 1, spaceIdx),
                             value |-> StripValueQuotes(Trim(SliceFrom(trimmed, spaceIdx + 1)))] >>
                    ELSE <<>>
    IN  [type |-> <<"E","N","V">>, raw |-> <<"E","N","V"," ">> \o args, line |-> line,
         arguments |-> args, pairs |-> pairs]

\* the last position of "((?:[^"\\]|\\.)*)" for an opening quote at q - 1 and
\* the body scanned up to p - 1, or 0 without a closing quote
RECURSIVE LabelQuoteEnd(_, _)
LabelQuoteEnd(t, p) ==
    IF p > Len(t) THEN 0
    ELSE IF t[p] = "\"" THEN p
    ELSE IF t[p] = "\\" THEN (IF p + 1 <= Len(t) /\ t[p + 1] # "\n" THEN LabelQuoteEnd(t, p + 2) ELSE 0)
    ELSE LabelQuoteEnd(t, p + 1)

\* the value alternatives of the LABEL regex at position q, after the '='
LabelValueAt(t, q) ==
    IF CharAt(t, q) = "\"" /\ LabelQuoteEnd(t, q + 1) > 0
    THEN [value |-> SubSeq(t, q + 1, LabelQuoteEnd(t, q + 1) - 1), end |-> LabelQuoteEnd(t, q + 1)]
    ELSE IF CharAt(t, q) = "'" /\ IndexFrom(t, "'", q + 1) > 0
    THEN [value |-> SubSeq(t, q + 1, IndexFrom(t, "'", q + 1) - 1), end |-> IndexFrom(t, "'", q + 1)]
    ELSE [value |-> SubSeq(t, q, NonSpaceEnd(t, q)), end |-> NonSpaceEnd(t, q)]

\* m[1].replace(/^["']|["']$/g, '')
StripKeyQuotes(key) ==
    LET a == IF key # <<>> /\ key[1] \in {"\"", "'"} THEN Tail(key) ELSE key
    IN  IF a # <<>> /\ a[Len(a)] \in {"\"", "'"} THEN SubSeq(a, 1, Len(a) - 1) ELSE a

\* the exec loop of /([^\s=]+)=(?:...)/g from position p on
RECURSIVE LabelScan(_, _)
LabelScan(t, p) ==
    IF p > Len(t) THEN <<>>
    ELSE LET e == RunEnd(t, p, {t[k] : k \in DOMAIN t} \ (WhiteSpace \cup {"=", "\n"}))
         IN  IF e >= p /\ CharAt(t, e + 1) = "="
             THEN LET v == LabelValueAt(t, e + 2)
                  IN  << [key |-> StripKeyQuotes(SubSeq(t, p, e)), value |-> v.value] >>
                      \o LabelScan(t, v.end + 1)
             ELSE LabelScan(t, p + 1)

parseLabelArgs(args, line) ==
    [type |-> <<"L","A","B","E","L">>, raw |-> <<"L","A","B","E","L"," ">> \o args, line |-> line,
     arguments |-> args, pairs |-> LabelScan(args, 1)]

RECURSIVE parseInstruction(_, _)
\* parseInstruction with the node of an unknown keyword holding the text after
\* the keyword only
parseInstruction_ArgsOnly(value, line) ==
    LET spaceIdx == IndexFrom(value, " ", 1) - 1
        keyword  == ToUpperCase(IF spaceIdx > 0 THEN SubSeq(value, 1, spaceIdx) ELSE value)
        args     == IF spaceIdx > 0 THEN SliceFrom(value, spaceIdx + 1) ELSE <<>>
    IN  IF keyword \notin VALID_INSTRUCTIONS
        THEN [type |-> RUN, raw |-> value, line |-> line, arguments |-> args]
        ELSE IF keyword = ONBUILD
        THEN [type |-> ONBUILD, raw |-> value, line |-> line, arguments |-> args,
              innerInstruction |-> parseInstruction(Trim(args), line)]
        ELSE IF keyword = FROM THEN parseFromArgs(args, line)
        ELSE IF keyword = ARG THEN parseArgArgs(args, line)
        ELSE IF keyword \in {COPY, <<"A","D","D">>} THEN parseCopyArgs(keyword, args, line)
        ELSE IF keyword = <<"E","N","V">> THEN parseEnvArgs(args, line)
        ELSE IF keyword = <<"L","A","B","E","L">> THEN parseLabelArgs(args, line)
        ELSE IF keyword \in TypedKeywords
        THEN [type |-> keyword, raw |-> keyword \o <<" ">> \o args, line |-> line, arguments |-> args]
        ELSE [type |-> keyword, raw |-> value, line |-> line, arguments |-> args]

\* parseInstruction(value, line)
parseInstruction(value, line) ==
    LET spaceIdx == IndexFrom(value, " ", 1) - 1
        keyword  == ToUpperCase(IF spaceIdx > 0 THEN SubSeq(value, 1, spaceIdx) ELSE value)
        args     == IF spaceIdx > 0 THEN SliceFrom(value, spaceIdx + 1) ELSE <<>>
    IN  IF keyword \notin VALID_INSTRUCTIONS
        THEN [type |-> RUN, raw |-> value, line |-> line, arguments |-> value]
        ELSE IF keyword = ONBUILD
        THEN [type |-> ONBUILD, raw |-> value, line |-> line, arguments |-> args,
              innerInstruction |-> parseInstruction(Trim(args), line)]
        ELSE IF keyword = FROM THEN parseFromArgs(args, line)
        ELSE IF keyword = ARG THEN parseArgArgs(args, line)
        ELSE IF keyword \in {COPY, <<"A","D","D">>} THEN parseCopyArgs(keyword, args, line)
        ELSE IF keyword = <<"E","N","V">> THEN parseEnvArgs(args, line)
        ELSE IF keyword = <<"L","A","B","E","L">> THEN parseLabelArgs(args, line)
        ELSE IF keyword \in TypedKeywords
        THEN [type |-> keyword, raw |-> keyword \o <<" ">> \o args, line |-> line, arguments |-> args]
        ELSE [type |-> keyword, raw |-> value, line |-> line, arguments |-> args]

\* the position after word w matched, ignoring case, at position p of s; 0
\* when it does not match
MatchWordCI(s, p, w) ==
    IF p >= 1 /\ p + Len(w) - 1 <= Len(s)
       /\ \A k \in 1..Len(w) : ToUpperChar(s[p + k - 1]) = ToUpperChar(w[k])
    THEN p + Len(w) ELSE 0

\* the first group of /^#\s*(?:dockervet|hadolint)\s+ignore\s*=\s*(.+)$/i on
\* the comment text, Undefined when the comment is no directive
DirectiveGroup(value) ==
    IF ~StartsWith(value, "#") THEN Undefined
    ELSE LET p1 == SkipSpaces(value, 2)
             d  == MatchWordCI(value, p1, <<"d","o","c","k","e","r","v","e","t">>)
             h  == MatchWordCI(value, p1, <<"h","a","d","o","l","i","n","t">>)
             p2 == IF d > 0 THEN d ELSE h
             p3 == SkipSpaces(value, p2)
             p4 == MatchWordCI(value, p3, <<"i","g","n","o","r","e">>)
             p5 == SkipSpaces(value, p4)
             p6 == SkipSpaces(value, p5 + 1)
         IN  IF p2 = 0 \/ p3 = p2 \/ p4 = 0 \/ CharAt(value, p5) # "=" THEN Undefined
             ELSE IF p6 <= Len(value) THEN SubSeq(value, p6, Len(value))
             ELSE IF p6 > p5 + 1 THEN SubSeq(value, p6 - 1, Len(value))
             ELSE Undefined

\* ignoreMatch[1].split(',').map(r => r.trim())
DirectiveRules(value) ==
    LET parts == Split(DirectiveGroup(value), ",")
    IN  [k \in 1..Len(parts) |-> Trim(parts[k])]

CommentNode(token) ==
    [type |-> COMMENT, raw |-> token.value, line |-> token.line, arguments |-> token.value]

\* const stages = []; ... let currentStage = null; the for-of loop starts
ParseBegin ==
    /\ pc = "tokenized"
    /\ stages' = <<>>
    /\ globalArgs' = <<>>
    /\ comments' = <<>>
    /\ inlineIgnores' = <<>>
    /\ currentStage' = 0
    /\ tokIdx' = 1
    /\ pc' = "parse"
    /\ UNCHANGED <<ruleVars, exitVars, lintVars, mainVars, content, lexVars, ast>>

\* if (token.type === 'EMPTY') continue;
ParseEmpty ==
    /\ pc = "parse"
    /\ tokIdx <= Len(tokens)
    /\ tokens[tokIdx].type = "EMPTY"
    /\ tokIdx' = tokIdx + 1
    /\ UNCHANGED <<ruleVars, exitVars, lintVars, mainVars, content, pc, lexVars, stages, globalArgs, comments, inlineIgnores, currentStage, ast>>

\* a COMMENT token: the comment node is kept and a directive is recorded
\* under the comment's own line
ParseComment ==
    /\ pc = "parse"
    /\ tokIdx <= Len(tokens)
    /\ tokens[tokIdx].type = "COMMENT"
    /\ comments' = Append(comments, CommentNode(tokens[tokIdx]))
    /\ inlineIgnores' = IF DirectiveGroup(tokens[tokIdx].value) # Undefined
                        THEN MapSet(inlineIgnores, tokens[tokIdx].line,
                                    DirectiveRules(tokens[tokIdx].value))
                        ELSE inlineIgnores
    /\ tokIdx' = tokIdx + 1
    /\ UNCHANGED <<ruleVars, exitVars, lintVars, mainVars, content, pc, lexVars, stages, globalArgs, currentStage, ast>>

\* an INSTRUCTION token, every ARG taken as a global ARG: a FROM starts a stage, any other instruction goes to the current stage if there is one
ParseInstructionToken_ArgGlobal ==
    /\ pc = "parse"
    /\ tokIdx <= Len(tokens)
    /\ tokens[tokIdx].type \notin {"EMPTY", "COMMENT"}
    /\ LET instruction == parseInstruction(tokens[tokIdx].value, tokens[tokIdx].line)
       IN  IF instruction.type = FROM
           THEN /\ stages' = Append(stages, [from |-> instruction, instructions |-> <<>>,
                                             index |-> Len(stages)])
                /\ currentStage' = Len(stages) + 1
                /\ UNCHANGED globalArgs
           ELSE IF instruction.type = ARG
           THEN /\ globalArgs' = Append(globalArgs, instruction)
                /\ UNCHANGED <<stages, currentStage>>
           ELSE IF currentStage # 0
           THEN /\ stages' = [stages EXCEPT ![currentStage].instructions = Append(@, instruction)]
                /\ UNCHANGED <<globalArgs, currentStage>>
           ELSE UNCHANGED <<stages, globalArgs, currentStage>>
    /\ tokIdx' = tokIdx + 1
    /\ UNCHANGED <<ruleVars, exitVars, lintVars, mainVars, content, pc, lexVars, comments, inlineIgnores, ast>>

\* an INSTRUCTION token: a FROM starts a stage, an ARG before any FROM is a
\* global ARG, any other instruction goes to the current stage if there is one
ParseInstructionToken ==
    /\ pc = "parse"
    /\ tokIdx <= Len(tokens)
    /\ tokens[tokIdx].type \notin {"EMPTY", "COMMENT"}
    /\ LET instruction == parseInstruction(tokens[tokIdx].value, tokens[tokIdx].line)
       IN  IF instruction.type = FROM
           THEN /\ stages' = Append(stages, [from |-> instruction, instructions |-> <<>>,
                                             index |-> Len(stages)])
                /\ currentStage' = Len(stages) + 1
                /\ UNCHANGED globalArgs
           ELSE IF instruction.type = ARG /\ currentStage = 0
           THEN /\ globalArgs' = Append(globalArgs, instruction)
                /\ UNCHANGED <<stages, currentStage>>
           ELSE IF currentStage # 0
           THEN /\ stages' = [stages EXCEPT ![currentStage].instructions = Append(@, instruction)]
                /\ UNCHANGED <<globalArgs, currentStage>>
           ELSE UNCHANGED <<stages, globalArgs, currentStage>>
    /\ tokIdx' = tokIdx + 1
    /\ UNCHANGED <<ruleVars, exitVars, lintVars, mainVars, content, pc, lexVars, comments, inlineIgnores, ast>>

\* the loops over the stages and their instructions that look for a node on
\* line commentLine + 1: a matching FROM ends the search, a matching body
\* instruction ends the scan of its stage only
RECURSIVE ScanStages(_, _, _, _)
ScanStages(resolved, k, commentLine, rules) ==
    IF k > Len(stages) THEN resolved
    ELSE IF stages[k].from.line = commentLine + 1
    THEN MapSet(resolved, stages[k].from.line, rules)
    ELSE LET insts == stages[k].instructions
             hit   == \E j \in DOMAIN insts : insts[j].line = commentLine + 1
         IN  ScanStages(IF hit THEN MapSet(resolved, commentLine + 1, rules) ELSE resolved,
                        k + 1, commentLine, rules)

\* one iteration of `for (const [commentLine, rules] of inlineIgnores)`
ResolveIgnore(resolved, commentLine, rules) ==
    LET found == ScanStages(resolved, 1, commentLine, rules)
    IN  IF ~MapHas(found, commentLine + 1)
        THEN MapSet(found, commentLine + 1, rules)
        ELSE found

RECURSIVE ResolveIgnores(_, _)
ResolveIgnores(resolved, k) ==
    IF k > Len(inlineIgnores) THEN resolved
    ELSE ResolveIgnores(ResolveIgnore(resolved, inlineIgnores[k].key, inlineIgnores[k].value), k + 1)

\* the for-of loop is over: the inline ignores are resolved and the AST returned
ParseReturn ==
    /\ pc = "parse"
    /\ tokIdx > Len(tokens)
    /\ ast' = [stages |-> stages, globalArgs |-> globalArgs, comments |-> comments,
               inlineIgnores |-> ResolveIgnores(<<>>, 1)]
    /\ pc' = "parsed"
    /\ UNCHANGED <<ruleVars, exitVars, lintVars, mainVars, content, lexVars, tokIdx, stages, globalArgs, comments, inlineIgnores, currentStage>>

NextParse ==
    \/ ParseBegin
    \/ ParseEmpty
    \/ ParseComment
    \/ ParseInstructionToken
    \/ ParseReturn

(***************************************************************************)
(* lint                                                                    *)
(***************************************************************************)
Violation(rule, severity, message, line) ==
    [rule |-> rule, severity |-> severity, message |-> message, line |-> line]

Event(ev, rule, n) == [ev |-> ev, rule |-> rule, n |-> n]

\* the characters of rule ids in collation order
Alphabet == <<"0","1","2","3","4","5","6","7","8","9",
              "A","B","C","D","E","F","G","H","I","J","K","L","M",
              "N","O","P","Q","R","S","T","U","V","W","X","Y","Z">>

CharRank(c) == CHOOSE k \in DOMAIN Alphabet : Alphabet[k] = c

\* a.localeCompare(b) for rule ids: negative, zero or positive
RECURSIVE localeCompare(_, _)
localeCompare(a, b) ==
    IF a = <<>> /\ b = <<>> THEN 0
    ELSE IF a = <<>> THEN -1
    ELSE IF b = <<>> THEN 1
    ELSE IF Head(a) = Head(b) THEN localeCompare(Tail(a), Tail(b))
    ELSE IF CharRank(Head(a)) < CharRank(Head(b)) THEN -1 ELSE 1

\* a comparator that orders by line only
Compare_LineOnly(a, b) == a.line - b.line

\* the comparator of violations.sort: a.line - b.line || a.rule.localeCompare(b.rule)
Compare(a, b) ==
    IF a.line - b.line # 0 THEN a.line - b.line ELSE localeCompare(a.rule, b.rule)

\* Array.prototype.sort is stable: v goes after every element that does not
\* compare greater than it
RECURSIVE InsertStable(_, _)
InsertStable(sorted, v) ==
    IF sorted = <<>> THEN <<v>>
    ELSE IF Compare(sorted[Len(sorted)], v) <= 0 THEN Append(sorted, v)
    ELSE Append(InsertStable(SubSeq(sorted, 1, Len(sorted) - 1), v), sorted[Len(sorted)])

RECURSIVE SortFrom(_, _, _)
SortFrom(vs, k, sorted) ==
    IF k > Len(vs) THEN sorted ELSE SortFrom(vs, k + 1, InsertStable(sorted, vs[k]))

\* a sort that also removes a violation with the rule and line of the one before it
SortViolations_DropsRepeats(vs) ==
    LET sorted == SortFrom(vs, 1, <<>>)
        keep   == {k \in DOMAIN sorted :
                      k = 1 \/ sorted[k - 1].line # sorted[k].line \/ sorted[k - 1].rule # sorted[k].rule}
    IN  [n \in 1..Cardinality(keep) |->
            sorted[CHOOSE k \in keep : Cardinality({m \in keep : m <= k}) = n]]

SortViolations(vs) == SortFrom(vs, 1, <<>>)

\* an inline ignore that suppresses its rule on every line of the file
InlineIgnored_FileWide(v) ==
    \E e \in DOMAIN ast.inlineIgnores :
        \E k \in DOMAIN ast.inlineIgnores[e].value : ast.inlineIgnores[e].value[k] = v.rule

\* const lineIgnores = ast.inlineIgnores.get(v.line);
\* lineIgnores && lineIgnores.includes(v.rule)
InlineIgnored(v) ==
    /\ MapHas(ast.inlineIgnores, v.line)
    /\ \E k \in DOMAIN MapGet(ast.inlineIgnores, v.line) :
          MapGet(ast.inlineIgnores, v.line)[k] = v.rule

\* an override looked up without the violation's rule id: the first
\* configured severity is applied to every violation
OverrideSeverity_AnyRule(v) ==
    IF DOMAIN config.override # {}
    THEN config.override[CHOOSE r \in DOMAIN config.override : TRUE].severity
    ELSE Undefined

\* const override = config.override?.[v.rule]; override?.severity
OverrideSeverity(v) ==
    IF v.rule \in DOMAIN config.override THEN config.override[v.rule].severity ELSE Undefined

\* the loop body with the severity override applied before the inline-ignore test
HandleViolation_OverrideFirst(acc, v, k) ==
    LET w == IF OverrideSeverity(v) # Undefined
             THEN [v EXCEPT !.severity = OverrideSeverity(v)] ELSE v
        o == IF OverrideSeverity(v) # Undefined THEN <<Event("override", v.rule, k)>> ELSE <<>>
    IN  IF InlineIgnored(w)
        THEN [violations |-> acc.violations,
              objs |-> Append(acc.objs, w),
              log |-> acc.log \o o \o <<Event("test", v.rule, k), Event("drop", v.rule, k)>>]
        ELSE [violations |-> Append(acc.violations, w),
              objs |-> Append(acc.objs, w),
              log |-> acc.log \o o \o <<Event("test", v.rule, k), Event("push", v.rule, k)>>]

\* the body of `for (const v of ruleViolations)` for the k-th violation of a
\* rule; acc holds the violations array, the rule's objects and the log
HandleViolation(acc, v, k) ==
    IF InlineIgnored(v)
    THEN [violations |-> acc.violations,
          objs |-> Append(acc.objs, v),
          log |-> acc.log \o <<Event("test", v.rule, k), Event("drop", v.rule, k)>>]
    ELSE IF OverrideSeverity(v) # Undefined
    THEN LET w == [v EXCEPT !.severity = OverrideSeverity(v)]
         IN  [violations |-> Append(acc.violations, w),
              objs |-> Append(acc.objs, w),
              log |-> acc.log \o <<Event("test", v.rule, k), Event("override", v.rule, k),
                                   Event("push", v.rule, k)>>]
    ELSE [violations |-> Append(acc.violations, v),
          objs |-> Append(acc.objs, v),
          log |-> acc.log \o <<Event("test", v.rule, k), Event("push", v.rule, k)>>]

RECURSIVE HandleViolations(_, _, _)
HandleViolations(acc, ruleViolations, k) ==
    IF k > Len(ruleViolations) THEN acc
    ELSE HandleViolations(HandleViolation(acc, ruleViolations[k], k), ruleViolations, k + 1)

\* if (ignoredRules.has(rule.id)) continue;
RuleIgnored(id) == id \in ignoredRules

\* no call of resolvedWorkdir is pending or has returned
NoWalk == [state |-> "none", alias |-> NoString, visited |-> {}, result |-> FALSE]

\* lint's violations array declared outside the function: a call starts with
\* what the call before left in it
LintCall_SharedArray(Inputs) ==
    /\ pc = "parsed"
    /\ \E in \in Inputs :
          /\ config' = in.config
          /\ ALL_RULES' = in.rules
          /\ checks' = in.checks
          /\ ignoredRules' = {in.config.ignore[k] : k \in DOMAIN in.config.ignore}
          /\ trustedRegistries' = FieldOr(in, "trustedRegistries",
                                           FieldOr(in.config, "trustedRegistries", <<>>))
    /\ violations' = violations
    /\ ruleIdx' = 1
    /\ returned' = Undefined
    /\ emitted' = <<>>
    /\ log' = <<>>
    /\ pc' = "rules"
    /\ UNCHANGED <<ruleVars, exitVars, mainVars, content, lexVars, parseVars>>

\* lint is called: the options are destructured and violations = []
LintCall(Inputs) ==
    /\ pc = "parsed"
    /\ \E in \in Inputs :
          /\ config' = in.config
          /\ ALL_RULES' = in.rules
          /\ checks' = in.checks
          /\ ignoredRules' = {in.config.ignore[k] : k \in DOMAIN in.config.ignore}
          /\ trustedRegistries' = FieldOr(in, "trustedRegistries",
                                           FieldOr(in.config, "trustedRegistries", <<>>))
    /\ violations' = <<>>
    /\ ruleIdx' = 1
    /\ returned' = Undefined
    /\ emitted' = <<>>
    /\ log' = <<>>
    /\ pc' = "rules"
    /\ UNCHANGED <<ruleVars, exitVars, mainVars, content, lexVars, parseVars>>

\* a rule of the ignore list is skipped
LintSkip ==
    /\ pc = "rules"
    /\ ruleIdx <= Len(ALL_RULES)
    /\ RuleIgnored(ALL_RULES[ruleIdx])
    /\ ruleIdx' = ruleIdx + 1
    /\ log' = Append(log, Event("skip", ALL_RULES[ruleIdx], 0))
    /\ UNCHANGED <<ruleVars, exitVars, mainVars, content, pc, lexVars, parseVars, config, ALL_RULES, checks, ignoredRules, trustedRegistries,
                   violations, returned, emitted>>

\* rule.check(ctx) returns: its violations are filtered, overridden and pushed
LintRule ==
    /\ pc = "rules"
    /\ ruleIdx <= Len(ALL_RULES)
    /\ ~RuleIgnored(ALL_RULES[ruleIdx])
    /\ ~checks[ALL_RULES[ruleIdx]].throws
    /\ LET id  == ALL_RULES[ruleIdx]
           acc == HandleViolations([violations |-> violations, objs |-> <<>>,
                                    log |-> Append(log, Event("check", id, 0))],
                                   checks[id].out, 1)
       IN  /\ violations' = acc.violations
           /\ emitted' = Append(emitted, [rule |-> id, objs |-> acc.objs])
           /\ log' = acc.log
    /\ ruleIdx' = ruleIdx + 1
    /\ UNCHANGED <<ruleVars, exitVars, mainVars, content, pc, lexVars, parseVars, config, ALL_RULES, checks, ignoredRules, trustedRegistries, returned>>

\* a throwing check that is caught: the rule is passed over and the loop goes on
LintThrow_Caught ==
    /\ pc = "rules"
    /\ ruleIdx <= Len(ALL_RULES)
    /\ ~RuleIgnored(ALL_RULES[ruleIdx])
    /\ checks[ALL_RULES[ruleIdx]].throws
    /\ log' = log \o <<Event("check", ALL_RULES[ruleIdx], 0), Event("throw", ALL_RULES[ruleIdx], 0)>>
    /\ ruleIdx' = ruleIdx + 1
    /\ UNCHANGED <<ruleVars, exitVars, mainVars, content, pc, lexVars, parseVars, config, ALL_RULES, checks, ignoredRules, trustedRegistries,
                   violations, returned, emitted>>

\* rule.check(ctx) throws: nothing catches it, lint is left without a result
LintThrow ==
    /\ pc = "rules"
    /\ ruleIdx <= Len(ALL_RULES)
    /\ ~RuleIgnored(ALL_RULES[ruleIdx])
    /\ checks[ALL_RULES[ruleIdx]].throws
    /\ log' = log \o <<Event("check", ALL_RULES[ruleIdx], 0), Event("throw", ALL_RULES[ruleIdx], 0)>>
    /\ pc' = "thrown"
    /\ UNCHANGED <<ruleVars, exitVars, mainVars, content, lexVars, parseVars, config, ALL_RULES, checks, ignoredRules, trustedRegistries, ruleIdx,
                   violations, returned, emitted>>

\* the loop over the rules is over: violations.sort(...); return violations
LintReturn ==
    /\ pc = "rules"
    /\ ruleIdx > Len(ALL_RULES)
    /\ violations' = SortViolations(violations)
    /\ returned' = SortViolations(violations)
    /\ log' = Append(log, Event("sort", <<>>, 0))
    /\ history' = Append(history, [content |-> content, ast |-> ast,
                                   violations |-> SortViolations(violations)])
    /\ pc' = "linted"
    /\ UNCHANGED <<ruleVars, exitVars, files, fileIdx, rulebook, content, lexVars, parseVars, config,
                   ALL_RULES, checks, trustedRegistries, ignoredRules, ruleIdx, emitted>>

vars == <<content, pc, lexVars, parseVars, lintVars, mainVars, ruleVars, exitVars>>

(***************************************************************************)
(* Inputs of the lexer                                                     *)
(***************************************************************************)
LexPool ==
    { <<>>,
      <<" ">>,
      <<"#"," ","c">>,
      <<" ","#","c"," ","\\">>,
      <<"R","U","N"," ","x">>,
      <<"R","U","N"," ","x"," ","\\">>,
      <<"y","\\"," ">>,
      <<"R","U","N"," ","<","<","E","O","F">>,
      <<"p","i","p"," ","i","n","s","t","a","l","l"," ","x">>,
      <<"E","O","F">>,
      <<" ","E","O","F","\t">>,
      <<"A","D","D"," ","<","<","-","'","E","O","F","'"," ","<","<","B"," ","\\">>,
      <<"B">> }

RECURSIVE SeqsUpTo(_, _)
SeqsUpTo(S, n) ==
    IF n = 0 THEN {<<>>}
    ELSE LET shorter == SeqsUpTo(S, n - 1)
         IN  shorter \cup {Append(s, x) : s \in {t \in shorter : Len(t) = n - 1}, x \in S}

LexContents == {JoinLines(ls) : ls \in SeqsUpTo(LexPool, MaxLines) \ {<<>>}}

\* the state when parse (and, first thing, tokenize) is called on content
InitLocals ==
    /\ lines = <<>>
    /\ i = 0
    /\ tokens = <<>>
    /\ fullLine = <<>>
    /\ startLine = 0
    /\ heredocDelimiters = <<>>
    /\ delimIdx = 0
    /\ reads = <<>>
    /\ tokIdx = 0
    /\ stages = <<>>
    /\ globalArgs = <<>>
    /\ comments = <<>>
    /\ inlineIgnores = <<>>
    /\ currentStage = 0
    /\ config = Undefined
    /\ ALL_RULES = <<>>
    /\ checks = Undefined
    /\ ignoredRules = {}
    /\ ruleIdx = 0
    /\ violations = <<>>
    /\ returned = Undefined
    /\ emitted = <<>>
    /\ log = <<>>
    /\ fileIdx = 1
    /\ history = <<>>
    /\ trustedRegistries = <<>>
    /\ stageHasWorkdir = <<>>
    /\ stageParent = <<>>
    /\ resolveIdx = 0
    /\ walk = NoWalk
    /\ walkLog = <<>>
    /\ ruleOut = Undefined
    /\ results = <<>>
    /\ maxExit = 0
    /\ exited = Undefined

InitCall == pc = "tokenize" /\ ast = Undefined /\ InitLocals

\* one text is parsed and linted
InitOne == InitCall /\ files = <<content>> /\ rulebook = Undefined /\ opts = Undefined

InitTok == content \in LexContents /\ InitOne

SpecTok == InitTok /\ [][NextTok]_vars

(***************************************************************************)
(* Inputs of parse and lint                                                *)
(***************************************************************************)
DL3 == <<"D","L","3">>
DV1 == <<"D","V","1">>

RuleIds == {DL3, DV1}

\* the severity a rule gives its violations
RuleSeverity(id) == IF id = DL3 THEN "warning" ELSE "info"

DirectiveDL3 == <<"#"," ","h","a","d","o","l","i","n","t"," ","i","g","n","o","r","e","=","D","L","3">>
DirectiveBoth ==
    <<"#","D","o","c","k","e","r","V","e","t","\t","I","G","N","O","R","E"," ","="," ",
      "D","V","1"," ",",","D","L","3">>

PipePool ==
    { <<>>,
      DirectiveDL3,
      DirectiveBoth,
      <<"F","R","O","M"," ","s">>,
      <<"r","u","n"," ","x">>,
      <<"A","D","D"," ","<","<","E"," ","\\">> }

PipeContents == {JoinLines(ls) : ls \in SeqsUpTo(PipePool, MaxLines) \ {<<>>}}

LintContents ==
    { <<>>,
      JoinLines(<< DirectiveDL3, <<"R","U","N"," ","x">> >>),
      JoinLines(<< <<"F","R","O","M"," ","s">>, DirectiveBoth,
                   <<"R","U","N"," ","x"," ","\\">>, <<"<","<","E">>, <<"E">> >>) }

NoOverride == << >>

Configs ==
    {[ignore |-> ig, override |-> ov] :
        ig \in {<<>>, <<DV1>>, <<DV1, DL3>>},
        ov \in {NoOverride, DL3 :> [severity |-> "error"], DV1 :> [severity |-> "style"],
                DL3 :> [severity |-> Undefined]}}

\* the sequences of at most n distinct elements of S
RECURSIVE DistinctSeqs(_, _)
DistinctSeqs(S, n) ==
    IF n = 0 THEN {<<>>}
    ELSE LET shorter == DistinctSeqs(S, n - 1)
         IN  shorter \cup
             UNION {{Append(q, x) : x \in S \ {q[k] : k \in DOMAIN q}} :
                        q \in {t \in shorter : Len(t) = n - 1}}

Throws == [throws |-> TRUE, out |-> <<>>]
Returns(out) == [throws |-> FALSE, out |-> out]

\* what the check of rule id may do: throw, or return violations carrying
\* its own id and severity
Outcomes(id, Messages, Lines, n) ==
    {Throws} \cup
    {Returns(o) : o \in DistinctSeqs({Violation(id, RuleSeverity(id), m, l) :
                                        m \in Messages, l \in Lines}, n)}

LintInputs ==
    {[config |-> c, rules |-> r, checks |-> (DL3 :> a) @@ (DV1 :> b)] :
        c \in Configs, r \in {<<DL3, DV1>>, <<DV1, DL3>>},
        a \in Outcomes(DL3, {"m1", "m2"}, 2..MaxViolLine, MaxViol),
        b \in Outcomes(DV1, {"m1"}, 2..MaxViolLine, 1)}

PipeOutcomes(id) ==
    {Throws, Returns(<<>>)} \cup
    {Returns(<<Violation(id, RuleSeverity(id), "m1", l)>>) : l \in 1..Len(lines)}

PipeInputs ==
    {[config |-> c, rules |-> <<DL3, DV1>>, checks |-> (DL3 :> a) @@ (DV1 :> b)] :
        c \in {[ignore |-> <<>>, override |-> NoOverride], [ignore |-> <<DV1>>, override |-> NoOverride]},
        a \in PipeOutcomes(DL3), b \in PipeOutcomes(DV1)}

Init == content \in PipeContents /\ InitOne

Next ==
    \/ NextTok
    \/ NextParse
    \/ LintCall(PipeInputs)
    \/ LintSkip
    \/ LintRule
    \/ LintThrow
    \/ LintReturn

Spec == Init /\ [][Next]_vars

InitLint == content \in LintContents /\ InitOne

NextLint ==
    \/ NextTok
    \/ NextParse
    \/ LintCall(LintInputs)
    \/ LintSkip
    \/ LintRule
    \/ LintThrow
    \/ LintReturn

SpecLint == InitLint /\ [][NextLint]_vars

(***************************************************************************)
(* main: the files of the command line are parsed and linted in turn       *)
(***************************************************************************)
MaxFiles == 3

\* processContent has returned: the next file is read and handed to parse
NextFile ==
    /\ pc = "linted"
    /\ fileIdx < Len(files)
    /\ fileIdx' = fileIdx + 1
    /\ content' = files[fileIdx + 1]
    /\ pc' = "tokenize"
    /\ UNCHANGED <<ruleVars, exitVars, files, rulebook, history, lexVars, parseVars, lintVars>>

RerunContents ==
    { JoinLines(<< DirectiveDL3, <<"R","U","N"," ","x">> >>),
      JoinLines(<< <<"F","R","O","M"," ","s">>, <<>>, DirectiveBoth,
                   <<"R","U","N"," ","x"," ","\\">>, <<"<","<","E">>, <<"E">> >>) }

\* the checks are functions of the context: one behaviour per text
RerunChecks ==
    {(DL3 :> a) @@ (DV1 :> b) :
        a \in {Returns(<<>>), Returns(<<Violation(DL3, "warning", "m1", 2)>>),
               Returns(<<Violation(DL3, "warning", "m1", 4), Violation(DL3, "warning", "m2", 2)>>)},
        b \in {Throws, Returns(<<>>), Returns(<<Violation(DV1, "info", "m1", 2)>>)}}

RerunConfigs ==
    { [ignore |-> <<>>, override |-> NoOverride],
      [ignore |-> <<DV1>>, override |-> DL3 :> [severity |-> "error"]] }

\* the session's options are fixed; the checks are those of the text at hand
RerunInputs ==
    {[config |-> c, rules |-> <<DL3, DV1>>, checks |-> rulebook[content]] :
        c \in IF history = <<>> THEN RerunConfigs ELSE {config}}

InitRerun ==
    /\ files \in SeqsUpTo(RerunContents, MaxFiles) \ {<<>>}
    /\ content = files[1]
    /\ rulebook \in [RerunContents -> RerunChecks]
    /\ opts = Undefined
    /\ InitCall

NextRerun ==
    \/ NextTok
    \/ NextParse
    \/ LintCall(RerunInputs)
    \/ LintSkip
    \/ LintRule
    \/ LintThrow
    \/ LintReturn
    \/ NextFile

SpecRerun == InitRerun /\ [][NextRerun]_vars

(***************************************************************************)
(* main: the files of the command line are processed in order and the     *)
(* process exits with the highest exit code                                *)
(***************************************************************************)
\* the exit code of a file whose violations make any finding an error
ExitCodeOf_AnyIsError(vs) == IF vs # <<>> THEN 2 ELSE 0

\* processContent: hasErrors, hasWarnings and the exit code of one file
ExitCodeOf(vs) ==
    IF \E k \in DOMAIN vs : vs[k].severity = "error" THEN 2
    ELSE IF \E k \in DOMAIN vs : vs[k].severity = "warning" THEN 1
    ELSE 0

\* Math.max(a, b)
MathMax(a, b) == IF a >= b THEN a ELSE b

\* main after parseArgs: the config file is loaded, the options are merged
\* into it and, without a file to lint, the process exits with 2
MainStart ==
    /\ pc = "main"
    /\ config' = [opts.configFile EXCEPT
                    !.ignore = @ \o opts.ignoreRules,
                    !.trustedRegistries = IF Len(opts.trustedRegistries) > 0
                                          THEN @ \o opts.trustedRegistries ELSE @]
    /\ IF Len(files) = 0
       THEN /\ exited' = 2
            /\ pc' = "exited"
            /\ UNCHANGED <<results, maxExit, fileIdx>>
       ELSE /\ results' = <<>>
            /\ maxExit' = 0
            /\ fileIdx' = 1
            /\ pc' = "files"
            /\ UNCHANGED exited
    /\ UNCHANGED <<ruleVars, opts, files, rulebook, history, content, lexVars, parseVars,
                   ALL_RULES, checks, trustedRegistries, ignoredRules, ruleIdx, violations,
                   returned, emitted, log>>

\* if (!fs.existsSync(file)): maxExit = 2; continue
MainFileNotFound ==
    /\ pc = "files"
    /\ fileIdx <= Len(files)
    /\ files[fileIdx] = NoString
    /\ maxExit' = 2
    /\ fileIdx' = fileIdx + 1
    /\ UNCHANGED <<ruleVars, opts, results, exited, files, rulebook, history, content, pc,
                   lexVars, parseVars, lintVars>>

\* the file is read and processContent is called on its text
MainReadFile ==
    /\ pc = "files"
    /\ fileIdx <= Len(files)
    /\ files[fileIdx] # NoString
    /\ content' = files[fileIdx]
    /\ pc' = "tokenize"
    /\ UNCHANGED <<ruleVars, exitVars, mainVars, lexVars, parseVars, lintVars>>

\* lint's options as processContent passes them
MainInputs ==
    {[config |-> config, trustedRegistries |-> opts.trustedRegistries,
      rules |-> <<DL3, DV1>>, checks |-> rulebook[content]]}

\* processContent returns: the result is pushed and maxExit raised to its exit code
ProcessContentReturn ==
    /\ pc = "linted"
    /\ results' = Append(results, [filename |-> fileIdx, violations |-> returned,
                                   exitCode |-> ExitCodeOf(returned)])
    /\ maxExit' = MathMax(maxExit, ExitCodeOf(returned))
    /\ fileIdx' = fileIdx + 1
    /\ pc' = "files"
    /\ UNCHANGED <<ruleVars, opts, exited, files, rulebook, history, content, lexVars,
                   parseVars, lintVars>>

\* the loop over opts.files is over: process.exit(maxExit)
MainExit ==
    /\ pc = "files"
    /\ fileIdx > Len(files)
    /\ exited' = maxExit
    /\ pc' = "exited"
    /\ UNCHANGED <<ruleVars, opts, results, maxExit, mainVars, content, lexVars, parseVars,
                   lintVars>>

\* the texts of the files that exist, and what the two rules report on each
MainClean == JoinLines(<< <<"#"," ","c">>, <<>>, <<"F","R","O","M"," ","s">> >>)
MainInfo == JoinLines(<< <<"R","U","N"," ","x"," ","\\">>, <<"y">> >>)
MainWarning == JoinLines(<< <<"A","D","D"," ","<","<","E">>, <<"b">>, <<"E">> >>)

MainRulebook ==
    (MainClean :> ((DL3 :> Returns(<<>>)) @@ (DV1 :> Returns(<<>>))))
    @@ (MainInfo :> ((DL3 :> Returns(<<>>))
                     @@ (DV1 :> Returns(<<Violation(DV1, "info", "m1", 1)>>))))
    @@ (MainWarning :> ((DL3 :> Returns(<<Violation(DL3, "warning", "m1", 1)>>))
                        @@ (DV1 :> Returns(<<Violation(DV1, "info", "m1", 1)>>))))

\* the config files: ignore list and overrides, with and without a registry
MainConfigFiles ==
    {[ignore |-> p.ignore, override |-> p.override, trustedRegistries |-> t] :
        p \in { [ignore |-> <<>>, override |-> NoOverride],
                [ignore |-> <<>>, override |-> (DL3 :> [severity |-> "error"])
                                               @@ (DV1 :> [severity |-> "warning"])],
                [ignore |-> <<DV1>>, override |-> DL3 :> [severity |-> "error"]] },
        t \in {<<>>, <<"r.io">>}}

\* the options parseArgs returns
MainOpts ==
    {[configFile |-> c, ignoreRules |-> <<>>, trustedRegistries |-> t] :
        c \in MainConfigFiles, t \in {<<>>, <<"q.io">>}}

InitMain ==
    /\ files \in SeqsUpTo({NoString, MainClean, MainInfo, MainWarning}, MaxFiles)
    /\ content = <<>>
    /\ rulebook = MainRulebook
    /\ opts \in MainOpts
    /\ pc = "main"
    /\ ast = Undefined
    /\ InitLocals

NextMain ==
    \/ MainStart
    \/ MainFileNotFound
    \/ MainReadFile
    \/ NextTok
    \/ NextParse
    \/ LintCall(MainInputs)
    \/ LintSkip
    \/ LintRule
    \/ LintReturn
    \/ ProcessContentReturn
    \/ MainExit

SpecMain == InitMain /\ [][NextMain]_vars

(***************************************************************************)
(* Rule DL3045: COPY to a relative destination without WORKDIR             *)
(***************************************************************************)
MaxStages == 2

\* what a rule's check leaves alone
pipeVars == <<content, lexVars, parseVars, lintVars, mainVars, exitVars>>

LowerOf == [c \in UpperLetters |-> CHOOSE l \in LowerLetters : UpperOf[l] = c]

ToLowerChar(c) == IF c \in UpperLetters THEN LowerOf[c] ELSE c

\* String.prototype.toLowerCase
ToLowerCase(s) == [k \in 1..Len(s) |-> ToLowerChar(s[k])]

\* s?.toLowerCase()
LowerOpt(s) == IF s = NoString THEN NoString ELSE ToLowerCase(s)


\* stage.instructions.some(i => i.type === 'WORKDIR')
SomeWorkdir(stage) == \E k \in DOMAIN stage.instructions : stage.instructions[k].type = WORKDIR

\* the two maps after the first loop over the stages from stage k on
RECURSIVE BuildStageMaps(_, _, _)
BuildStageMaps(maps, stgs, k) ==
    IF k > Len(stgs) THEN maps
    ELSE LET stage  == stgs[k]
             alias  == LowerOpt(StringField(stage.from, "alias"))
             has    == SomeWorkdir(stage)
             parent == LowerOpt(StringField(stage.from, "image"))
         IN  BuildStageMaps(IF Truthy(alias)
                            THEN [stageParent |-> MapSet(maps.stageParent, alias, parent),
                                  stageHasWorkdir |-> MapSet(maps.stageHasWorkdir, alias, has)]
                            ELSE maps,
                            stgs, k + 1)

\* check(ctx) is called: the maps alias -> parent and alias -> has WORKDIR are built
DL3045Build ==
    /\ pc = "DL3045"
    /\ LET maps == BuildStageMaps([stageParent |-> <<>>, stageHasWorkdir |-> <<>>], ast.stages, 1)
       IN  /\ stageParent' = maps.stageParent
           /\ stageHasWorkdir' = maps.stageHasWorkdir
    /\ resolveIdx' = 1
    /\ walk' = NoWalk
    /\ walkLog' = <<>>
    /\ ruleOut' = Undefined
    /\ pc' = "DL3045.resolve"
    /\ UNCHANGED pipeVars

\* for (const [alias] of stageHasWorkdir): resolvedWorkdir(alias) is called
\* with a new visited set
ResolveCall ==
    /\ pc = "DL3045.resolve"
    /\ resolveIdx <= Len(stageHasWorkdir)
    /\ walk' = [state |-> "pending", alias |-> stageHasWorkdir[resolveIdx].key, visited |-> {},
                result |-> FALSE]
    /\ walkLog' = <<>>
    /\ pc' = "DL3045.walk"
    /\ UNCHANGED <<pipeVars, stageHasWorkdir, stageParent, resolveIdx, ruleOut>>

\* resolvedWorkdir without the visited test
WalkRecurses_NoVisited ==
    /\ Truthy(walk.alias)
    /\ ~MapGetOr(stageHasWorkdir, walk.alias, FALSE)
    /\ Len(walkLog) <= Len(ast.stages) + 1
    /\ Truthy(MapGetOr(stageParent, walk.alias, NoString))

\* whether the pending call of resolvedWorkdir calls itself on the parent
WalkRecurses ==
    /\ Truthy(walk.alias)
    /\ ~MapGetOr(stageHasWorkdir, walk.alias, FALSE)
    /\ walk.alias \notin walk.visited
    /\ Truthy(MapGetOr(stageParent, walk.alias, NoString))

\* what the pending call of resolvedWorkdir returns when it does not recurse
WalkResult ==
    /\ Truthy(walk.alias)
    /\ MapGetOr(stageHasWorkdir, walk.alias, FALSE)

\* resolvedWorkdir adds the alias to visited and calls itself on the parent
WalkParent ==
    /\ pc = "DL3045.walk"
    /\ WalkRecurses
    /\ walk' = [walk EXCEPT !.alias = MapGet(stageParent, walk.alias),
                            !.visited = walk.visited \cup {walk.alias}]
    /\ walkLog' = Append(walkLog, walk.alias)
    /\ UNCHANGED <<pipeVars, pc, stageHasWorkdir, stageParent, resolveIdx, ruleOut>>

\* resolvedWorkdir returns (through all the pending calls): a true result is
\* stored under the alias the query started from
WalkReturn ==
    /\ pc = "DL3045.walk"
    /\ ~WalkRecurses
    /\ stageHasWorkdir' = IF WalkResult
                          THEN MapSet(stageHasWorkdir, stageHasWorkdir[resolveIdx].key, TRUE)
                          ELSE stageHasWorkdir
    /\ walkLog' = IF Truthy(walk.alias) /\ ~WalkResult /\ walk.alias \notin walk.visited
                  THEN Append(walkLog, walk.alias) ELSE walkLog
    /\ walk' = [walk EXCEPT !.state = "returned", !.result = WalkResult]
    /\ resolveIdx' = resolveIdx + 1
    /\ pc' = "DL3045.resolve"
    /\ UNCHANGED <<pipeVars, stageParent, ruleOut>>

\* c.destination is set and starts with neither '/' nor '$'
RelativeDestination(inst) ==
    /\ Truthy(StringField(inst, "destination"))
    /\ ~StartsWith(inst.destination, "/")
    /\ ~StartsWith(inst.destination, "$")

DL3045Message == "COPY to a relative destination without WORKDIR set. Use absolute paths or set WORKDIR."

\* the violations of the instructions of one stage from instruction k on
RECURSIVE StageViolations(_, _, _)
StageViolations(insts, k, hasWorkdir) ==
    IF k > Len(insts) THEN <<>>
    ELSE LET inst == insts[k]
             has  == hasWorkdir \/ inst.type = WORKDIR
         IN  (IF inst.type = COPY /\ ~has /\ RelativeDestination(inst)
              THEN << Violation("DL3045", "warning", DL3045Message, inst.line) >>
              ELSE <<>>)
             \o StageViolations(insts, k + 1, has)

\* the second loop over the stages without the inherited WORKDIR
RECURSIVE ReportStages_OwnOnly(_, _)
ReportStages_OwnOnly(stgs, k) ==
    IF k > Len(stgs) THEN <<>>
    ELSE StageViolations(stgs[k].instructions, 1, FALSE) \o ReportStages_OwnOnly(stgs, k + 1)

\* the second loop over the stages, from stage k on
RECURSIVE ReportStages(_, _)
ReportStages(stgs, k) ==
    IF k > Len(stgs) THEN <<>>
    ELSE LET parentAlias == LowerOpt(StringField(stgs[k].from, "image"))
             inherited   == IF Truthy(parentAlias)
                            THEN MapGetOr(stageHasWorkdir, parentAlias, FALSE)
                            ELSE FALSE
         IN  StageViolations(stgs[k].instructions, 1, inherited) \o ReportStages(stgs, k + 1)

\* every alias is resolved: the stages are scanned and check returns
DL3045Report ==
    /\ pc = "DL3045.resolve"
    /\ resolveIdx > Len(stageHasWorkdir)
    /\ ruleOut' = ReportStages(ast.stages, 1)
    /\ pc' = "DL3045.done"
    /\ UNCHANGED <<pipeVars, stageHasWorkdir, stageParent, resolveIdx, walk, walkLog>>

NextDL3045 ==
    \/ DL3045Build
    \/ ResolveCall
    \/ WalkParent
    \/ WalkReturn
    \/ DL3045Report

\* ----- the ASTs DL3045 is run on -----
FromNode(image, alias, line) ==
    IF alias = NoString
    THEN [type |-> FROM, line |-> line, image |-> image]
    ELSE [type |-> FROM, line |-> line, image |-> image, alias |-> alias]

\* the body of a stage whose FROM is on the given line
StageBodies(line) ==
    LET w == [type |-> WORKDIR, line |-> line + 1]
        c == [type |-> COPY, line |-> line + 2, destination |-> <<"d">>]
        a == [type |-> COPY, line |-> line + 3, destination |-> <<"/","d">>]
    IN  { <<>>, <<w>>, <<c, w>>, <<w, c>>, <<a, c>> }

StageNames == { <<<<"x">>, <<"a">>>>, <<<<"B">>, <<"a">>>>, <<<<"a">>, <<"b">>>>, <<<<"a">>, <<"A">>>>,
                <<<<"a">>, NoString>> }

StagesAt(line) ==
    {[from |-> FromNode(n[1], n[2], line), instructions |-> b] : n \in StageNames, b \in StageBodies(line)}

RECURSIVE StageLists(_)
StageLists(n) ==
    IF n = 0 THEN {<<>>}
    ELSE LET shorter == StageLists(n - 1)
         IN  shorter \cup UNION {{Append(q, s) : s \in StagesAt(4 * Len(q) + 1)} :
                                 q \in {r \in shorter : Len(r) = n - 1}}

InitDL3045 ==
    /\ content = <<>>
    /\ files = <<>>
    /\ rulebook = Undefined
    /\ opts = Undefined
    /\ InitLocals
    /\ pc = "DL3045"
    /\ ast \in {[stages |-> s, globalArgs |-> <<>>, comments |-> <<>>, inlineIgnores |-> <<>>] :
                  s \in StageLists(MaxStages)}

SpecDL3045 == InitDL3045 /\ [][NextDL3045]_vars

(***************************************************************************)
(* Rule DL3006: always tag the version of an image explicitly              *)
(***************************************************************************)
PLATFORM_ARG_VALUES ==
    (<<"T","A","R","G","E","T","A","R","C","H">> :> {<<"a","m","d","6","4">>, <<"a","r","m","6","4">>, <<"a","r","m">>, <<"a","r","m","v","7">>, <<"3","8","6">>, <<"s","3","9","0","x">>, <<"p","p","c","6","4","l","e">>, <<"r","i","s","c","v","6","4">>}) @@
    (<<"T","A","R","G","E","T","O","S">> :> {<<"l","i","n","u","x">>, <<"d","a","r","w","i","n">>, <<"w","i","n","d","o","w","s">>, <<"f","r","e","e","b","s","d">>}) @@
    (<<"T","A","R","G","E","T","P","L","A","T","F","O","R","M">> :> {<<"l","i","n","u","x","/","a","m","d","6","4">>, <<"l","i","n","u","x","/","a","r","m","6","4">>, <<"l","i","n","u","x","/","a","r","m","/","v","7">>}) @@
    (<<"T","A","R","G","E","T","V","A","R","I","A","N","T">> :> {<<"v","7">>, <<"v","6">>, <<>>}) @@
    (<<"B","U","I","L","D","A","R","C","H">> :> {<<"a","m","d","6","4">>, <<"a","r","m","6","4">>}) @@
    (<<"B","U","I","L","D","O","S">> :> {<<"l","i","n","u","x">>})

NameStart == UpperLetters \cup LowerLetters \cup {"_"}
NameChar == NameStart \cup Digits

\* the match of /\$\{?([A-Za-z_][A-Za-z0-9_]*)\}?/ anchored at position p
VarRefAt(s, p) ==
    IF CharAt(s, p) # "$" THEN [ok |-> FALSE, name |-> <<>>, end |-> 0]
    ELSE LET q == IF CharAt(s, p + 1) = "{" THEN p + 2 ELSE p + 1
             e == RunEnd(s, q, NameChar)
         IN  IF CharAt(s, q) \notin NameStart THEN [ok |-> FALSE, name |-> <<>>, end |-> 0]
             ELSE [ok |-> TRUE, name |-> SubSeq(s, q, e),
                   end |-> IF CharAt(s, e + 1) = "}" THEN e + 1 ELSE e]

\* the positions at which the regex matches (the matches cannot overlap)
VarRefs(s) == {p \in DOMAIN s : VarRefAt(s, p).ok}

VarNames(s) == {VarRefAt(s, p).name : p \in VarRefs(s)}

\* s.replace(/.../g, ...) with the replacement of each variable given by env
RECURSIVE ReplaceVars(_, _, _)
ReplaceVars(s, p, env) ==
    IF p > Len(s) THEN <<>>
    ELSE IF VarRefAt(s, p).ok
    THEN env[VarRefAt(s, p).name] \o ReplaceVars(s, VarRefAt(s, p).end + 1, env)
    ELSE << s[p] >> \o ReplaceVars(s, p + 1, env)

\* names for which PLATFORM_ARG_VALUES[v] is truthy although v is no key of the
\* literal: the lookup on a plain object finds the members of Object.prototype
ObjectPrototypeNames ==
    { <<"v","a","l","u","e","O","f">>,
      <<"t","o","S","t","r","i","n","g">>,
      <<"c","o","n","s","t","r","u","c","t","o","r">>,
      <<"h","a","s","O","w","n","P","r","o","p","e","r","t","y">> }

\* matchesPlatformVariantAlias throws: no variable fails the test
\* !PLATFORM_ARG_VALUES[v], and expand calls values.some on a value that is
\* not an array (every value list of the table is non-empty, so expand reaches
\* every variable before it can answer)
PlatformMatchThrows(template) ==
    /\ VarNames(template) \subseteq DOMAIN PLATFORM_ARG_VALUES \cup ObjectPrototypeNames
    /\ VarNames(template) \cap ObjectPrototypeNames # {}

\* whether some substitution of platform values turns the template into an alias
matchesPlatformVariantAlias(template, stageAliases) ==
    LET varNames == VarNames(template)
    IN  /\ varNames \subseteq DOMAIN PLATFORM_ARG_VALUES
        /\ \E val \in [varNames -> UNION {PLATFORM_ARG_VALUES[v] : v \in varNames}] :
              /\ \A v \in varNames : val[v] \in PLATFORM_ARG_VALUES[v]
              /\ ToLowerCase(ReplaceVars(template, 1, val)) \in stageAliases

\* the aliases of all the stages, lower-cased
StageAliases(a) ==
    {ToLowerCase(a.stages[k].from.alias) : k \in {j \in DOMAIN a.stages : Truthy(a.stages[j].from.alias)}}

\* ctx.ast.globalArgs.find(a => a.name === name): its default value, undefined
\* when there is no such ARG or it has no default
ArgDefault(a, name) ==
    LET found == {k \in DOMAIN a.globalArgs : a.globalArgs[k].name = name}
    IN  IF found = {} THEN NoString
        ELSE a.globalArgs[CHOOSE k \in found : \A j \in found : k <= j].defaultValue

Scratch == <<"s","c","r","a","t","c","h">>

\* the first variable of the image has a default with a tag or a digest, or a
\* default that is scratch or a stage alias; here the default is never consulted
DefaultSkips_Never(a, f) == FALSE

\* the first variable of the image has a default with a tag or a digest, or a
\* default that is scratch or a stage alias
DefaultSkips(a, f) ==
    LET first      == CHOOSE p \in VarRefs(f.image) : \A q \in VarRefs(f.image) : p <= q
        defaultVal == ArgDefault(a, VarRefAt(f.image, first).name)
    IN  /\ VarRefs(f.image) # {}
        /\ Truthy(defaultVal)
        /\ \/ Includes(defaultVal, "@") \/ Includes(defaultVal, ":")
           \/ ToLowerCase(defaultVal) = Scratch
           \/ ToLowerCase(defaultVal) \in StageAliases(a)

\* f.image.replace(/\$\{?([A-Za-z_][A-Za-z0-9_]*)\}?/g, ...): every variable
\* replaced by the default of its global ARG, or by ${name} without one
Resolved(a, image) ==
    ReplaceVars(image, 1,
        [v \in VarNames(image) |->
            IF Truthy(ArgDefault(a, v)) THEN ArgDefault(a, v)
            ELSE <<"$", "{">> \o v \o <<"}">>])

\* the image with every variable replaced by its default is an alias, scratch
\* or a platform variant of an alias
ResolvedSkips(a, f) ==
    LET resolved == Resolved(a, f.image)
    IN  \/ ToLowerCase(resolved) \in StageAliases(a)
        \/ ToLowerCase(resolved) = Scratch
        \/ matchesPlatformVariantAlias(resolved, StageAliases(a))

\* whether the FROM of a stage is reported
DL3006Reports(a, f) ==
    /\ f.image # Scratch
    /\ ToLowerCase(f.image) \notin StageAliases(a)
    /\ ~Truthy(f.tag) /\ ~Truthy(f.digest)
    /\ Includes(f.image, "$") => ~DefaultSkips(a, f) /\ ~ResolvedSkips(a, f)

\* DL3006.check calls matchesPlatformVariantAlias for the FROM f
ReachesPlatformMatch(a, f) ==
    /\ f.image # Scratch
    /\ ToLowerCase(f.image) \notin StageAliases(a)
    /\ ~Truthy(f.tag) /\ ~Truthy(f.digest)
    /\ Includes(f.image, "$")
    /\ ~DefaultSkips(a, f)
    /\ ToLowerCase(Resolved(a, f.image)) \notin StageAliases(a) \cup {Scratch}

\* the check ends with the TypeError of matchesPlatformVariantAlias
DL3006Throws(a) ==
    \E k \in DOMAIN a.stages :
        /\ ReachesPlatformMatch(a, a.stages[k].from)
        /\ PlatformMatchThrows(Resolved(a, a.stages[k].from.image))

RECURSIVE DL3006Check(_, _)
DL3006Check(a, k) ==
    IF k > Len(a.stages) THEN <<>>
    ELSE (IF DL3006Reports(a, a.stages[k].from)
          THEN << Violation("DL3006", "warning",
                            <<"Always tag the version of an image explicitly.", a.stages[k].from.image>>,
                            a.stages[k].from.line) >>
          ELSE <<>>)
         \o DL3006Check(a, k + 1)

\* DL3006.check(ctx) on the AST parse returned
RunDL3006 ==
    /\ pc = "parsed"
    /\ IF DL3006Throws(ast)
       THEN ruleOut' = <<>> /\ pc' = "DL3006.threw"
       ELSE ruleOut' = DL3006Check(ast, 1) /\ pc' = "DL3006.done"
    /\ UNCHANGED <<pipeVars, stageHasWorkdir, stageParent, resolveIdx, walk, walkLog>>

FromPool ==
    { <<>>,
      <<"#"," ","c">>,
      <<"A","D","D"," ","<","<","E"," ","\\">>,
      <<"F","R","O","M"," ","s","c","r","a","t","c","h">>,
      <<"F","R","O","M"," ","u","b","u","n","t","u"," ","A","S"," ","b">>,
      <<"f","r","o","m"," ","B"," ","a","s"," ","b">>,
      <<"A","R","G"," ","I","=","g",":","1">>,
      <<"A","R","G"," ","I">>,
      <<"F","R","O","M"," ","$","I">>,
      <<"F","R","O","M"," ","$","{","I","}">>,
      <<"F","R","O","M"," ","c","$","{","T","A","R","G","E","T","O","S","}">>,
      <<"F","R","O","M"," ","c","$","v","a","l","u","e","O","f">>,
      <<"F","R","O","M"," ","x",":","1"," ","A","S"," ","c","l","i","n","u","x">> }

FromContents == {JoinLines(ls) : ls \in SeqsUpTo(FromPool, MaxLines) \ {<<>>}}

InitFrom == content \in FromContents /\ InitOne

NextFrom ==
    \/ NextTok
    \/ NextParse
    \/ RunDL3006

SpecFrom == InitFrom /\ [][NextFrom]_vars

(***************************************************************************)
(* parse alone, on texts with instructions before and after the FROMs      *)
(***************************************************************************)
ParsePool ==
    { <<>>,
      <<"#"," ","c">>,
      <<"A","D","D"," ","<","<","E"," ","\\">>,
      <<"F","R","O","M"," ","a">>,
      <<"A","R","G"," ","I">>,
      <<"O","N","B","U","I","L","D"," ","F","R","O","M"," ","b">>,
      <<"f","o","o"," ","x">>,
      <<"R","U","N"," ","y">> }

ParseContents == {JoinLines(ls) : ls \in SeqsUpTo(ParsePool, MaxLines) \ {<<>>}}

InitParse == content \in ParseContents /\ InitOne

NextParseOnly ==
    \/ NextTok
    \/ NextParse

SpecParse == InitParse /\ [][NextParseOnly]_vars

(***************************************************************************)
(* parse alone, on one FROM line or on a stage of one COPY, ADD, ENV or    *)
(* LABEL instruction: the nodes the argument parsers build                 *)
(***************************************************************************)
\* image specs of a FROM line
FromSpecs ==
    { <<"u">>,
      <<"u",":","1">>,
      <<"u","@","d">>,
      <<"u",":","1","@","d">>,
      <<"u","@","d",":","1">>,
      <<"r",":","5","/","u",":","2">>,
      <<"u",":">>,
      <<"u","@","d","@","e">>,
      <<"u",":","1",":","2">> }

\* the options before the image spec
FromFlags ==
    { <<>>,
      <<"-","-","p","l","a","t","f","o","r","m","=","p"," ">> }

\* the text after the image spec
FromAliases ==
    { <<>>,
      <<" ","A","S"," ","b">> }

FromLines == {FROM \o <<" ">> \o f \o s \o a : f \in FromFlags, s \in FromSpecs, a \in FromAliases}

\* the options of a COPY or ADD line
CopyFlags ==
    { <<>>,
      <<"-","-","l","i","n","k"," ">>,
      <<"-","-","f","r","o","m","=","b"," ">>,
      <<"-","-","c","h","o","w","n","=","u",":","g"," ","-","-","l","i","n","k"," ">> }

\* the positional text of a COPY or ADD line
CopyPositionals ==
    { <<>>,
      <<"a">>,
      <<"a"," ","b">>,
      <<"a"," ","b"," ","c">>,
      <<"[","\"","a","\"",",","\"","b","\"","]">>,
      <<"[","\"","a","\"",","," ","1","]">>,
      <<"\"","a"," ","b","\""," ","c">>,
      <<"[","a"," ","b","]">> }

CopyLines ==
    {k \o <<" ">> \o f \o t : k \in {COPY, <<"A","D","D">>}, f \in CopyFlags, t \in CopyPositionals}

\* the payloads of an ENV or LABEL line
PairPayloads ==
    { <<"a"," ","b">>,
      <<"a"," ","\"","b"," ","c","\"">>,
      <<"a">>,
      <<"a","=","b">>,
      <<"a","=","b"," ","c","=","d">>,
      <<"a","=","\"","b"," ","c","\""," ","d","=","'","e","'">>,
      <<"1","=","x">>,
      <<"\"","k","\"","=","v">> }

PairLines == {k \o <<" ">> \o t : k \in {<<"E","N","V">>, <<"L","A","B","E","L">>}, t \in PairPayloads}

\* texts with an empty line, a comment, a continuation and a heredoc
NodeOthers ==
    { <<"\n","#"," ","c","\n","F","R","O","M"," ","s">>,
      <<"F","R","O","M"," ","s","\n","R","U","N"," ","x"," ","\\","\n","y">>,
      <<"F","R","O","M"," ","s","\n","A","D","D"," ","<","<","E","\n","b","\n","E">> }

NodeContents ==
    FromLines \cup {<<"F","R","O","M"," ","s","\n">> \o l : l \in CopyLines \cup PairLines} \cup NodeOthers

InitNodes == content \in NodeContents /\ InitOne

SpecNodes == InitNodes /\ [][NextParseOnly]_vars

(***************************************************************************)
(* Rule DV4008: TODO/FIXME/HACK comments, and lint on texts of comments    *)
(***************************************************************************)
DV4008 == <<"D","V","4","0","0","8">>

\* the characters of \w
WordChars == UpperLetters \cup LowerLetters \cup Digits \cup {"_"}

\* /\bWORD\b/i.test(s) for a word of letters
HasWord(s, word) ==
    \E p \in 1..(Len(s) - Len(word) + 1) :
        /\ ToUpperCase(SubSeq(s, p, p + Len(word) - 1)) = word
        /\ p = 1 \/ s[p - 1] \notin WordChars
        /\ p + Len(word) > Len(s) \/ s[p + Len(word)] \notin WordChars

\* /\b(TODO|FIXME|HACK|XXX)\b/i.test(s)
HasTodo(s) ==
    \E word \in {<<"T","O","D","O">>, <<"F","I","X","M","E">>, <<"H","A","C","K">>, <<"X","X","X">>} :
        HasWord(s, word)

\* DV4008.check(ctx): one violation per comment that holds one of the words
RECURSIVE DV4008Check(_, _)
DV4008Check(a, k) ==
    IF k > Len(a.comments) THEN <<>>
    ELSE (IF HasTodo(a.comments[k].arguments)
          THEN << Violation(DV4008, "info",
                            <<"TODO/FIXME/HACK comment found. Resolve before production use.">>,
                            a.comments[k].line) >>
          ELSE <<>>)
         \o DV4008Check(a, k + 1)

\* a rule that looks at the stages only reports nothing on a text without FROM
StageRuleCheck(a) ==
    IF Len(a.stages) = 0 THEN <<>> ELSE << Violation(DL3, "warning", "m1", a.stages[1].from.line) >>

\* lint(ast, { config: defaultConfig })
CommentInputs ==
    {[config |-> [ignore |-> <<>>, override |-> NoOverride, trustedRegistries |-> <<>>],
      rules |-> <<DL3, DV4008>>,
      checks |-> (DL3 :> Returns(StageRuleCheck(ast))) @@ (DV4008 :> Returns(DV4008Check(ast, 1)))]}

CommentPool ==
    { <<>>,
      <<"#"," ","c">>,
      <<"#"," ","T","O","D","O"," ","x">>,
      <<"#"," ","t","o","d","o","s">>,
      <<"F","R","O","M"," ","s">>,
      <<"A","D","D"," ","<","<","E"," ","\\">> }

CommentContents == {JoinLines(ls) : ls \in SeqsUpTo(CommentPool, MaxLines)}

InitComments == content \in CommentContents /\ InitOne

NextComments ==
    \/ NextTok
    \/ NextParse
    \/ LintCall(CommentInputs)
    \/ LintRule
    \/ LintReturn

SpecComments == InitComments /\ [][NextComments]_vars

(***************************************************************************)
(* tokenize on texts with an instruction that declares two heredocs        *)
(***************************************************************************)
MaxHeredocLines == 4

HeredocPool ==
    { <<>>,
      <<"#","c">>,
      <<"x"," ","\\">>,
      <<"R","U","N"," ","<","<","A"," ","<","<","B">>,
      <<"A">>,
      <<"B">>,
      <<" ","A","\t">> }

HeredocContents == {JoinLines(ls) : ls \in SeqsUpTo(HeredocPool, MaxHeredocLines) \ {<<>>}}

InitHeredoc == content \in HeredocContents /\ InitOne

SpecHeredoc == InitHeredoc /\ [][NextTok]_vars

(***************************************************************************)
(* Properties of the lexer                                                 *)
(***************************************************************************)
NumLines == Len(lines)

Max(S) == CHOOSE x \in S : \A y \in S : y <= x
Min(S) == CHOOSE x \in S : \A y \in S : x <= y

\* the lines read while token number t was built
LinesOf(t) == {reads[j].idx : j \in {k \in DOMAIN reads : reads[k].tok = t}}

\* the lines of token t that were read as its first line or joined to it
JoinedOf(t) ==
    {reads[j].idx : j \in {k \in DOMAIN reads : reads[k].tok = t /\ reads[k].kind \in {"start", "cont"}}}

\* the last line of token t, by the token list alone
SpanEnd(t) == IF t < Len(tokens) THEN tokens[t + 1].line - 1 ELSE NumLines

CountOf(s, c) == Cardinality({k \in DOMAIN s : s[k] = c})

\* C1: when tokenize returns, every physical line 1..N of the input (N = number
\* of '\n' + 1) has been consumed exactly once, by exactly one token: an EMPTY or
\* COMMENT token owns its own line only, an INSTRUCTION token owns the
\* contiguous span from its first line to the line before the next token; token
\* line numbers are strictly increasing and start at 1, and an instruction
\* token's line is the first line of its span.
C1_EveryLineOnce ==
    pc = "tokenized" =>
        /\ NumLines = CountOf(content, "\n") + 1
        /\ \A k \in 1..NumLines :
              Cardinality({j \in DOMAIN reads : reads[j].idx = k}) = 1
        /\ \A j \in DOMAIN reads : reads[j].idx \in 1..NumLines /\ reads[j].tok \in DOMAIN tokens
        /\ Len(tokens) >= 1 /\ tokens[1].line = 1
        /\ \A t \in DOMAIN tokens :
              /\ t < Len(tokens) => tokens[t].line < tokens[t + 1].line
              /\ LinesOf(t) = tokens[t].line .. SpanEnd(t)
              /\ tokens[t].line = Min(LinesOf(t))
              /\ tokens[t].type \in {"EMPTY", "COMMENT"} => LinesOf(t) = {tokens[t].line}
              /\ tokens[t].type \in {"EMPTY", "COMMENT", "INSTRUCTION"}

\* an instruction joined from two lines, followed by a comment, has been tokenized
C1_Witness ==
    /\ pc = "tokenized"
    /\ NumLines = 3
    /\ Len(tokens) = 2
    /\ tokens[1].type = "INSTRUCTION" /\ LinesOf(1) = {1, 2}
    /\ tokens[2].type = "COMMENT" /\ tokens[2].line = 3

\* the last line consumed by a heredoc that starts at line k with the
\* delimiters ds still open (the end of input when one never appears)
RECURSIVE HeredocEnd(_, _, _)
HeredocEnd(ls, k, ds) ==
    IF ds = <<>> THEN k - 1
    ELSE IF k > Len(ls) THEN Len(ls)
    ELSE IF Trim(ls[k]) = Head(ds) THEN HeredocEnd(ls, k + 1, Tail(ds))
    ELSE HeredocEnd(ls, k + 1, ds)

\* whether every delimiter of ds appears, in order, from line k on
RECURSIVE HeredocCloses(_, _, _)
HeredocCloses(ls, k, ds) ==
    IF ds = <<>> THEN TRUE
    ELSE IF k > Len(ls) THEN FALSE
    ELSE IF Trim(ls[k]) = Head(ds) THEN HeredocCloses(ls, k + 1, Tail(ds))
    ELSE HeredocCloses(ls, k + 1, ds)

\* the characters of s that are not white space, as a bag
InkOf(s) ==
    [c \in {s[k] : k \in DOMAIN s} \ WhiteSpace |-> Cardinality({k \in DOMAIN s : s[k] = c})]

RECURSIVE InkOfLines(_, _)
InkOfLines(from, to) ==
    IF from > to THEN EmptyBag ELSE InkOf(lines[from]) (+) InkOfLines(from + 1, to)

HeredocExample ==
    JoinLines(<< <<"R","U","N"," ","<","<","E","O","F">>,
                 <<"p","i","p"," ","i","n","s","t","a","l","l"," ","x">>,
                 <<"E","O","F">> >>)

\* C2: an instruction whose joined text holds a heredoc opener yields exactly
\* one INSTRUCTION token; the lines after the joined instruction lines, up to and
\* including the terminator line (or the end of input), carry no token of their
\* own, the next token starts right after them, and the token's value is made of
\* the text of the joined instruction lines only. `RUN <<EOF\npip install
\* x\nEOF` yields the single token `RUN <<EOF`.
C2_HeredocOneToken ==
    pc = "tokenized" =>
        /\ \A t \in DOMAIN tokens :
              (tokens[t].type = "INSTRUCTION" /\ extractHeredocDelimiters(tokens[t].value) # <<>>) =>
                 LET first == Max(JoinedOf(t)) + 1
                     last  == HeredocEnd(lines, first, extractHeredocDelimiters(tokens[t].value))
                 IN  /\ \A u \in DOMAIN tokens : tokens[u].line \notin first..last
                     /\ Cardinality({u \in DOMAIN tokens : tokens[u].line = tokens[t].line}) = 1
                     /\ last < NumLines => (t < Len(tokens) /\ tokens[t + 1].line = last + 1)
                     /\ last = NumLines => t = Len(tokens)
                     /\ InkOf(tokens[t].value) \sqsubseteq InkOfLines(tokens[t].line, first - 1)
        /\ content = HeredocExample =>
              tokens = << Token("INSTRUCTION", 1, <<"R","U","N"," ","<","<","E","O","F">>,
                                <<"R","U","N"," ","<","<","E","O","F">>) >>

\* the example of the specification has been tokenized
C2_Witness ==
    /\ pc = "tokenized"
    /\ content = HeredocExample
    /\ Len(tokens) = 1
    /\ LinesOf(1) = {1, 2, 3}

\* the input ends inside an instruction: its last line was joined to an
\* instruction and ends in a backslash, or a heredoc of token t is never closed
EndsInContinuation(t) ==
    /\ NumLines \in JoinedOf(t)
    /\ EndsWith(TrimEnd(lines[NumLines]), "\\")

EndsInHeredoc(t) ==
    /\ tokens[t].type = "INSTRUCTION"
    /\ ~HeredocCloses(lines, Max(JoinedOf(t)) + 1, extractHeredocDelimiters(tokens[t].value))

\* a measure that every step of tokenize increases and the input bounds
Measure ==
    4 * i + (CASE pc = "tokenize" -> 0
               [] pc = "heredoc" -> 1
               [] pc = "loop" -> 2
               [] pc = "continuation" -> 3
               [] OTHER -> 4)

C3_Safe ==
    /\ pc # "raised"
    /\ i <= Len(lines)
    /\ Measure <= 4 * (CountOf(content, "\n") + 1) + 4
    /\ pc \in {"tokenize", "loop", "continuation", "heredoc", "tokenized"}
    /\ pc = "tokenized" =>
          \A t \in DOMAIN tokens :
              (EndsInContinuation(t) \/ EndsInHeredoc(t)) =>
                  /\ tokens[t].type = "INSTRUCTION"
                  /\ t = Len(tokens)
                  /\ NumLines \in LinesOf(t)
                  /\ Cardinality({u \in DOMAIN tokens : tokens[u].line = tokens[t].line}) = 1

\* C3: tokenize never raises and always returns (every step before the return
\* increases a measure that the number of lines bounds); when the input ends in a continuation backslash or inside a
\* heredoc whose delimiter never appears, the instruction token being built
\* extends to the last line, is emitted exactly once and is the last token.
C3_TerminatesNeverRaises == []C3_Safe /\ [][Measure' > Measure]_vars

\* tokenize has returned for an input whose last line ends in a continuation
\* backslash, and for one whose heredoc is never closed
C3_Witness ==
    /\ pc = "tokenized"
    /\ NumLines >= 2
    /\ \E t \in DOMAIN tokens :
          /\ tokens[t].type = "INSTRUCTION"
          /\ EndsInContinuation(t) \/ (EndsInHeredoc(t) /\ Cardinality(LinesOf(t)) >= 2)

(***************************************************************************)
(* Properties of inline ignores                                            *)
(***************************************************************************)
\* the rule ids a directive comment names, by the text of the comment
NamedIds(text) ==
    IF text = DirectiveDL3 THEN <<DL3>>
    ELSE IF text = DirectiveBoth THEN <<DV1, DL3>>
    ELSE <<>>

Names(text, id) == \E k \in DOMAIN NamedIds(text) : NamedIds(text)[k] = id

\* the lines that hold a directive comment / on which an instruction starts
DirectiveAt(L) == \E k \in DOMAIN ast.comments : ast.comments[k].line = L /\ NamedIds(ast.comments[k].raw) # <<>>

DirectiveText(L) == ast.comments[CHOOSE k \in DOMAIN ast.comments : ast.comments[k].line = L].raw

InstructionAt(L) == \E t \in DOMAIN tokens : tokens[t].type = "INSTRUCTION" /\ tokens[t].line = L

InSeq(x, q) == \E k \in DOMAIN q : q[k] = x

\* the violations the invoked rules emit: those of the registered rules that
\* are not in config.ignore
Emitted ==
    UNION {{checks[id].out[k] : k \in DOMAIN checks[id].out} :
              id \in {ALL_RULES[r] : r \in DOMAIN ALL_RULES} \ {config.ignore[k] : k \in DOMAIN config.ignore}}

\* C4: a directive comment on line L followed by an instruction that starts on
\* line L+1 makes parse record inlineIgnores[L+1] = the named ids, and lint drops
\* the violations of the named ids at line L+1; every other emitted violation (a
\* named rule at a line that does not follow a directive naming it, or a rule not
\* named) is returned.
C4_IgnoreNextLineOnly ==
    /\ pc \in {"parsed", "rules", "thrown", "linted"} =>
          \A L \in 1..NumLines :
              (DirectiveAt(L) /\ InstructionAt(L + 1)) =>
                  MapGet(ast.inlineIgnores, L + 1) = NamedIds(DirectiveText(L))
    /\ pc = "linted" =>
          \A v \in Emitted :
              InSeq(v, returned) <=> ~(DirectiveAt(v.line - 1) /\ Names(DirectiveText(v.line - 1), v.rule))

\* lint has returned for a text with a directive right above an instruction:
\* the named rule's violation at that line is dropped, another rule's violation at
\* the same line is returned
C4_Witness ==
    /\ pc = "linted"
    /\ \E L \in 1..NumLines :
          /\ DirectiveAt(L) /\ InstructionAt(L + 1)
          /\ NamedIds(DirectiveText(L)) = <<DL3>>
          /\ \E v \in Emitted : v.rule = DL3 /\ v.line = L + 1 /\ ~InSeq(v, returned)
          /\ \E v \in Emitted : v.rule = DV1 /\ v.line = L + 1 /\ InSeq(v, returned)

\* the line of the first instruction that starts after line L, 0 if none
NextInstructionLine(L) ==
    IF \E t \in DOMAIN tokens : tokens[t].type = "INSTRUCTION" /\ tokens[t].line > L
    THEN Min({tokens[t].line : t \in {u \in DOMAIN tokens : tokens[u].type = "INSTRUCTION" /\ tokens[u].line > L}})
    ELSE 0

\* C5: the violations of the ids a directive names are suppressed at the line of
\* the first instruction after the directive, also when blank or comment lines
\* lie between the two.
C5_IgnoreNextInstruction ==
    pc = "linted" =>
        \A L \in 1..NumLines :
            DirectiveAt(L) =>
                \A v \in Emitted :
                    (v.line = NextInstructionLine(L) /\ Names(DirectiveText(L), v.rule)) => ~InSeq(v, returned)

(***************************************************************************)
(* Properties of lint                                                      *)
(***************************************************************************)
\* the order of the rule ids
IdRank(id) == IF id = DL3 THEN 1 ELSE 2

\* what rule id contributes to the result, in the order it emits it
Contribution(id) ==
    IF InSeq(id, config.ignore) THEN <<>>
    ELSE HandleViolations([violations |-> <<>>, objs |-> <<>>, log |-> <<>>], checks[id].out, 1).violations

AtLine(q, l) == LET Here(v) == v.line = l IN SelectSeq(q, Here)

\* the contributions line by line and, within a line, rule id by rule id
RECURSIVE ByLine(_)
ByLine(l) ==
    IF l > MaxViolLine + 1 THEN <<>>
    ELSE AtLine(Contribution(DL3), l) \o AtLine(Contribution(DV1), l) \o ByLine(l + 1)

\* C6: the list lint returns is ordered by line and, within a line, by rule id,
\* and it is the same list whatever the registration order of the rules: the
\* contributions of the rules taken line by line and rule id by rule id.
C6_SortedAnyOrder ==
    pc = "linted" =>
        /\ \A k \in 1..(Len(returned) - 1) :
              \/ returned[k].line < returned[k + 1].line
              \/ /\ returned[k].line = returned[k + 1].line
                 /\ IdRank(returned[k].rule) <= IdRank(returned[k + 1].rule)
        /\ returned = ByLine(1)

\* lint has returned three or more violations, collected out of order from
\* rules registered in descending id order
C6_Witness ==
    /\ pc = "linted"
    /\ ALL_RULES = <<DV1, DL3>>
    /\ Len(returned) >= 3
    /\ returned # emitted[1].objs \o emitted[2].objs
    /\ \E a, b \in DOMAIN returned : returned[a].line = returned[b].line /\ returned[a].rule # returned[b].rule

Pos(ev, rule, n) == {k \in DOMAIN log : log[k] = Event(ev, rule, n)}

Before(A, B) == \A a \in A, b \in B : a < b

Registered == {ALL_RULES[r] : r \in DOMAIN ALL_RULES}

\* C7: lint works in the order ignore list, inline ignore, severity override,
\* sort: a rule of config.ignore is never invoked; each violation is tested
\* against the inline ignores before it is overridden or pushed, and a dropped one
\* is neither overridden (its object keeps the severity the rule gave it) nor
\* pushed nor returned; the sort happens once, as the last step, after every
\* rule has been skipped or invoked.
C7_FilterOrder ==
    pc \in {"rules", "thrown", "linted"} =>
        /\ \A id \in Registered :
              InSeq(id, config.ignore) => Pos("check", id, 0) = {}
        /\ \A id \in Registered, n \in 1..MaxViol + 1 :
              /\ Before(Pos("test", id, n), Pos("override", id, n) \cup Pos("push", id, n) \cup Pos("drop", id, n))
              /\ (Pos("override", id, n) \cup Pos("push", id, n) \cup Pos("drop", id, n)) # {} => Pos("test", id, n) # {}
              /\ Before(Pos("override", id, n), Pos("push", id, n))
              /\ Pos("drop", id, n) # {} => (Pos("override", id, n) = {} /\ Pos("push", id, n) = {})
        /\ \A e \in DOMAIN emitted : \A n \in DOMAIN emitted[e].objs :
              Pos("drop", emitted[e].rule, n) # {} =>
                  /\ emitted[e].objs[n] = checks[emitted[e].rule].out[n]
                  /\ ~InSeq(emitted[e].objs[n], violations)
        /\ Cardinality(Pos("sort", <<>>, 0)) = (IF pc = "linted" THEN 1 ELSE 0)
        /\ pc = "linted" =>
              /\ log[Len(log)] = Event("sort", <<>>, 0)
              /\ \A id \in Registered : Pos("skip", id, 0) \cup Pos("check", id, 0) # {}

\* lint has returned after it skipped a rule of the ignore list, and dropped
\* one violation and overrode another of the rule it invoked
C7_Witness ==
    /\ pc = "linted"
    /\ \E id \in Registered : Pos("skip", id, 0) # {}
    /\ \E id \in Registered, n, m \in 1..MaxViol :
          Pos("drop", id, n) # {} /\ Pos("override", id, m) # {}

HasOverride(id) == id \in DOMAIN config.override /\ config.override[id].severity # Undefined

Key(v) == [rule |-> v.rule, message |-> v.message, line |-> v.line]

RECURSIVE KeyBag(_)
KeyBag(q) == IF q = <<>> THEN EmptyBag ELSE SetToBag({Key(Head(q))}) (+) KeyBag(Tail(q))

Kept(q) == LET Stays(v) == ~InlineIgnored(v) IN SelectSeq(q, Stays)

\* C8: a returned violation whose rule id has a configured severity carries that
\* severity, any other returned violation the severity its rule gave it; rule
\* id, message and line of the violations that are not dropped reach the result
\* unchanged.
C8_SeverityOnly ==
    pc = "linted" =>
        /\ \A k \in DOMAIN returned :
              returned[k].severity = IF HasOverride(returned[k].rule)
                                     THEN config.override[returned[k].rule].severity
                                     ELSE RuleSeverity(returned[k].rule)
        /\ KeyBag(returned) =
              KeyBag(IF InSeq(DL3, config.ignore) THEN <<>> ELSE Kept(checks[DL3].out))
              (+) KeyBag(IF InSeq(DV1, config.ignore) THEN <<>> ELSE Kept(checks[DV1].out))

\* lint has returned a violation with an overridden severity and one with the
\* severity of its rule
C8_Witness ==
    /\ pc = "linted"
    /\ \E a, b \in DOMAIN returned :
          /\ HasOverride(returned[a].rule) /\ returned[a].severity # RuleSeverity(returned[a].rule)
          /\ ~HasOverride(returned[b].rule) /\ returned[b].severity = RuleSeverity(returned[b].rule)

Thrower(id) == checks[id].throws /\ ~InSeq(id, config.ignore)

\* C9: when the check of a registered rule outside the ignore list throws, lint
\* returns no list, the exception leaves lint at that rule (no later rule is
\* invoked, nothing is done after the throw); a throwing rule of the ignore list
\* does not make lint throw.
C9_ThrowPropagates ==
    pc \in {"rules", "thrown", "linted"} =>
        /\ (\E id \in Registered : Thrower(id)) => (pc # "linted" /\ returned = Undefined)
        /\ pc = "thrown" =>
              /\ returned = Undefined
              /\ Thrower(ALL_RULES[ruleIdx])
              /\ log[Len(log)] = Event("throw", ALL_RULES[ruleIdx], 0)
              /\ \A r \in DOMAIN ALL_RULES : r > ruleIdx => Pos("check", ALL_RULES[r], 0) = {}
        /\ (\A id \in Registered : checks[id].throws => InSeq(id, config.ignore)) => pc # "thrown"
        /\ \A id \in Registered : Pos("throw", id, 0) # {} => pc = "thrown"

\* the second rule has thrown after the first rule's violations were collected
C9_Witness ==
    /\ pc = "thrown"
    /\ ruleIdx = 2
    /\ violations # <<>>
    /\ returned = Undefined

(***************************************************************************)
(* Determinism                                                             *)
(***************************************************************************)
\* C10: parse and lint keep no state from one call to the next: whenever the
\* same text has been parsed and linted twice in a session (same options,
\* whatever was parsed and linted in between), the two ASTs are equal and the
\* two violation lists are equal, element by element.
C10_SameInputSameOutput ==
    \A a, b \in DOMAIN history :
        history[a].content = history[b].content =>
            /\ history[a].ast = history[b].ast
            /\ history[a].violations = history[b].violations

\* a text has been parsed and linted, then another one, then the first again,
\* with a result that is not empty
C10_Witness ==
    /\ Len(history) = 3
    /\ history[1].content = history[3].content
    /\ history[1].content # history[2].content
    /\ history[1].violations # <<>>
    /\ history[2].violations # <<>>
    /\ history[1].violations # history[2].violations

(***************************************************************************)
(* Properties of DL3045                                                    *)
(***************************************************************************)
\* the maps as the first loop of the check builds them
OwnMaps == BuildStageMaps([stageParent |-> <<>>, stageHasWorkdir |-> <<>>], ast.stages, 1)

\* the alias reached from alias a by following the parent k times
RECURSIVE ParentPow(_, _)
ParentPow(a, k) ==
    IF k = 0 THEN a
    ELSE LET b == ParentPow(a, k - 1)
         IN  IF Truthy(b) THEN MapGetOr(OwnMaps.stageParent, b, NoString) ELSE NoString

\* the aliases on the chain of parents that starts at a (a included)
Chain(a) == {ParentPow(a, k) : k \in 0..Len(ast.stages)} \ {NoString, <<>>}

OnCycle(a) == \E k \in 1..Len(ast.stages) : ParentPow(a, k) = a

OwnWorkdir(a) == MapGetOr(OwnMaps.stageHasWorkdir, a, FALSE)

NoDuplicates(q) == \A m, n \in DOMAIN q : m # n => q[m] # q[n]

\* grows with every step of the check
DL3045Measure ==
    LET W == Len(ast.stages) + 3
    IN  resolveIdx * W
        + (IF pc = "DL3045.walk" THEN 1 + Len(walkLog) ELSE 0)
        + (IF pc = "DL3045.done" THEN W ELSE 0)

C11_Safe ==
    /\ pc \in {"DL3045", "DL3045.resolve", "DL3045.walk", "DL3045.done"}
    /\ pc = "DL3045.walk" <=> walk.state = "pending"
    /\ NoDuplicates(walkLog)
    /\ Len(walkLog) <= Len(stageHasWorkdir) + 1
    /\ walk.state = "returned" =>
          LET start == stageHasWorkdir[resolveIdx - 1].key
          IN  (OnCycle(start) /\ \A b \in Chain(start) : ~OwnWorkdir(b)) => walk.result = FALSE

\* C11: the walk along the parent aliases terminates for every graph of
\* stages and aliases (every step of the check increases a measure that is
\* bounded by the number of aliases), a query adds each alias to its visited set
\* at most once, and a query that starts on a cycle of aliases none of which has
\* a WORKDIR returns false.
C11_WalkTerminates == []C11_Safe /\ [][DL3045Measure' > DL3045Measure]_vars

\* a query that started on a cycle of two aliases without WORKDIR has come
\* back to its start and returned false
C11_Witness ==
    /\ walk.state = "returned"
    /\ Len(walkLog) = 2
    /\ walk.alias \in walk.visited
    /\ OnCycle(walk.alias)
    /\ walk.result = FALSE

\* whether the alias, or an alias on its chain of parents, has a WORKDIR of its own
ChainHasWorkdir(a) == \E b \in Chain(a) : OwnWorkdir(b)

\* whether the image of the stage's FROM is a declared alias that resolves to true
ParentResolves(stage) ==
    LET parent == LowerOpt(StringField(stage.from, "image"))
    IN  Truthy(parent) /\ MapHas(OwnMaps.stageParent, parent) /\ ChainHasWorkdir(parent)

WorkdirBefore(stage, k) == \E j \in 1..(k - 1) : stage.instructions[j].type = WORKDIR

RelativeCopy(inst) ==
    /\ inst.type = COPY
    /\ "destination" \in DOMAIN inst
    /\ inst.destination # <<>>
    /\ inst.destination[1] \notin {"/", "$"}

ReportedAt(line) == Cardinality({n \in DOMAIN ruleOut : ruleOut[n].line = line /\ ruleOut[n].rule = "DL3045"})

\* C20: when the check of DL3045 has returned, the resolved value of every
\* declared alias is true iff the alias or an alias reachable from it along the
\* parent aliases has a WORKDIR (whatever the order of the stages), a relative
\* COPY is not reported in a stage whose parent resolves to true, and it is
\* reported (once, at its line) when no WORKDIR precedes it in its stage and no
\* ancestor of the stage sets one.
C20_InheritedWorkdir ==
    pc = "DL3045.done" =>
        /\ \A e \in DOMAIN stageHasWorkdir :
              stageHasWorkdir[e].value = ChainHasWorkdir(stageHasWorkdir[e].key)
        /\ \A s \in DOMAIN ast.stages :
              \A k \in DOMAIN ast.stages[s].instructions :
                 LET stage == ast.stages[s]
                     inst  == stage.instructions[k]
                 IN  RelativeCopy(inst) =>
                        /\ ParentResolves(stage) => ReportedAt(inst.line) = 0
                        /\ (~WorkdirBefore(stage, k) /\ ~ParentResolves(stage)) => ReportedAt(inst.line) = 1

\* the check has returned for two stages: the first inherits the WORKDIR of
\* the second through its parent alias, so its relative COPY is not reported,
\* and the relative COPY of the second, placed before its WORKDIR, is reported
C20_Witness ==
    /\ pc = "DL3045.done"
    /\ Len(ast.stages) = 2
    /\ ParentResolves(ast.stages[1]) /\ ~SomeWorkdir(ast.stages[1])
    /\ \E k \in DOMAIN ast.stages[1].instructions : RelativeCopy(ast.stages[1].instructions[k])
    /\ ~ParentResolves(ast.stages[2])
    /\ Len(ruleOut) = 1
    /\ ruleOut[1].line > ast.stages[2].from.line

(***************************************************************************)
(* Properties of DL3006                                                    *)
(***************************************************************************)
\* the number of violations DL3006 reported at a line
DL3006At(line) == Cardinality({n \in DOMAIN ruleOut : ruleOut[n].line = line /\ ruleOut[n].rule = "DL3006"})

\* a FROM without tag, digest and variable reference
PlainFrom(f) == f.tag = NoString /\ f.digest = NoString /\ ~Includes(f.image, "$")

\* whether a stage before stage s declares an alias equal, ignoring case, to the image of stage s
EarlierAlias(s) ==
    \E t \in 1..(s - 1) :
        /\ Truthy(ast.stages[t].from.alias)
        /\ ToLowerCase(ast.stages[t].from.alias) = ToLowerCase(ast.stages[s].from.image)

\* C12: for a FROM without tag, digest and variable reference, DL3006 reports
\* nothing when the image is scratch or is, ignoring case, the alias an earlier
\* stage declared, and exactly one violation at the line of the FROM otherwise.
C12_UntaggedFrom ==
    pc = "DL3006.done" =>
        \A s \in DOMAIN ast.stages :
            PlainFrom(ast.stages[s].from) =>
                DL3006At(ast.stages[s].from.line) =
                    (IF ast.stages[s].from.image = Scratch \/ EarlierAlias(s) THEN 0 ELSE 1)

\* the image of the FROM is $NAME or ${NAME} and nothing else
WholeVarRef(f) ==
    /\ f.tag = NoString /\ f.digest = NoString
    /\ VarRefAt(f.image, 1).ok
    /\ VarRefAt(f.image, 1).end = Len(f.image)
    /\ f.image[Len(f.image)] = "}" <=> f.image[2] = "{"

\* the global ARGs that declare the name
Declarations(name) == {k \in DOMAIN ast.globalArgs : ast.globalArgs[k].name = name}

\* whether the reference of the FROM resolves to a stage alias: as written, in
\* the form ${NAME}, or with a platform value in place of NAME
ResolvesToAlias(f) ==
    LET template == <<"$", "{">> \o VarRefAt(f.image, 1).name \o <<"}">>
    IN  \/ ToLowerCase(f.image) \in StageAliases(ast)
        \/ ToLowerCase(template) \in StageAliases(ast)
        \/ matchesPlatformVariantAlias(template, StageAliases(ast))

\* C13: when the image of a FROM is a reference $NAME or ${NAME} to the global
\* ARG NAME (declared once), DL3006 reports nothing for the FROM if the default
\* of the ARG contains ':' or '@', and reports one violation at the line of
\* the FROM if the ARG has no default and the reference resolves to no stage alias.
C13_ArgDefaultPinned ==
    pc = "DL3006.done" =>
        \A s \in DOMAIN ast.stages :
            LET f    == ast.stages[s].from
                decl == Declarations(VarRefAt(f.image, 1).name)
            IN  (WholeVarRef(f) /\ Cardinality(decl) = 1) =>
                   LET default == ast.globalArgs[CHOOSE k \in decl : TRUE].defaultValue
                   IN  /\ (default # NoString /\ (Includes(default, ":") \/ Includes(default, "@")))
                            => DL3006At(f.line) = 0
                       /\ (default = NoString /\ ~ResolvesToAlias(f)) => DL3006At(f.line) = 1

\* DL3006 has returned for a text whose only FROM refers to the only global
\* ARG, the default of which has a tag: nothing is reported
C13_Witness ==
    /\ pc = "DL3006.done"
    /\ Len(ast.globalArgs) = 1
    /\ Len(ast.stages) = 1
    /\ WholeVarRef(ast.stages[1].from)
    /\ Declarations(VarRefAt(ast.stages[1].from.image, 1).name) = {1}
    /\ Includes(ast.globalArgs[1].defaultValue, ":")
    /\ ruleOut = <<>>

(***************************************************************************)
(* Properties of parse                                                     *)
(***************************************************************************)
\* the positions of the instruction tokens
InstructionTokens == {k \in DOMAIN tokens : tokens[k].type \notin {"EMPTY", "COMMENT"}}

\* the first space-delimited word of token k, upper-cased
FirstWord(k) ==
    LET v      == tokens[k].value
        spaces == {n \in DOMAIN v : v[n] = " "}
        end    == IF spaces = {} THEN Len(v) ELSE (CHOOSE n \in spaces : \A m \in spaces : n <= m) - 1
    IN  ToUpperCase(SubSeq(v, 1, end))

\* the tokens that open a stage
FromTokens == {k \in InstructionTokens : FirstWord(k) = FROM}

\* the number of FROM tokens before token k: the stage token k belongs to, 0 for none
Owner(k) == Cardinality({f \in FromTokens : f < k})

\* the lines of the tokens of S, in source order
TokenLines(S) ==
    [n \in 1..Cardinality(S) |->
        tokens[CHOOSE k \in S : Cardinality({m \in S : m < k}) = n - 1].line]

\* the lines of the nodes of a list
NodeLines(nodes) == [n \in DOMAIN nodes |-> nodes[n].line]

\* the places of the AST that hold a node of the line
Places(line) ==
    {<<"from", n>> : n \in {n \in DOMAIN ast.stages : ast.stages[n].from.line = line}}
    \cup {<<"body", x[1], x[2]>> : x \in {y \in (DOMAIN ast.stages) \X (1..Len(tokens)) :
              y[2] \in DOMAIN ast.stages[y[1]].instructions
              /\ ast.stages[y[1]].instructions[y[2]].line = line}}
    \cup {<<"arg", n>> : n \in {n \in DOMAIN ast.globalArgs : ast.globalArgs[n].line = line}}

\* C14: after parse every instruction token is in the AST exactly once, as the
\* FROM of a stage, in the body of a stage or, for an ARG before the first
\* FROM, among the global ARGs.
C14_EveryInstructionOnce ==
    pc = "parsed" =>
        \A k \in InstructionTokens :
            /\ Cardinality(Places(tokens[k].line)) = 1
            /\ (\E n \in DOMAIN ast.globalArgs : ast.globalArgs[n].line = tokens[k].line)
                  => (FirstWord(k) = ARG /\ Owner(k) = 0)

\* C15: parse makes one stage per FROM token, in source order and numbered
\* from 0; the body of a stage holds, in source order, the other instructions
\* up to the next FROM; the global ARGs are the ARGs before the first FROM.
C15_StagesFollowFroms ==
    pc = "parsed" =>
        /\ NodeLines([n \in DOMAIN ast.stages |-> ast.stages[n].from]) = TokenLines(FromTokens)
        /\ \A n \in DOMAIN ast.stages :
              /\ ast.stages[n].index = n - 1
              /\ NodeLines(ast.stages[n].instructions)
                    = TokenLines({k \in InstructionTokens \ FromTokens : Owner(k) = n})
        /\ NodeLines(ast.globalArgs)
              = TokenLines({k \in InstructionTokens : FirstWord(k) = ARG /\ Owner(k) = 0})

\* parse has returned one stage whose body holds an ARG, and one global ARG
C15_Witness ==
    /\ pc = "parsed"
    /\ Len(ast.globalArgs) = 1
    /\ Len(ast.stages) = 1
    /\ \E m \in DOMAIN ast.stages[1].instructions : ast.stages[1].instructions[m].type = ARG

\* the 18 keywords parse recognises
Recognised ==
    { <<"F","R","O","M">>, <<"R","U","N">>, <<"C","M","D">>, <<"L","A","B","E","L">>,
      <<"E","X","P","O","S","E">>, <<"E","N","V">>, <<"A","D","D">>, <<"C","O","P","Y">>,
      <<"E","N","T","R","Y","P","O","I","N","T">>, <<"V","O","L","U","M","E">>,
      <<"U","S","E","R">>, <<"W","O","R","K","D","I","R">>, <<"A","R","G">>,
      <<"O","N","B","U","I","L","D">>, <<"S","T","O","P","S","I","G","N","A","L">>,
      <<"H","E","A","L","T","H","C","H","E","C","K">>, <<"S","H","E","L","L">>,
      <<"M","A","I","N","T","A","I","N","E","R">> }

\* the nodes the body of the stage of token k holds for the line of token k
BodyNodes(k) ==
    {m \in DOMAIN ast.stages[Owner(k)].instructions :
        ast.stages[Owner(k)].instructions[m].line = tokens[k].line}

MissingFiles == {k \in DOMAIN files : files[k] = NoString}

\* the severities of the violations of a result
SeveritiesOf(r) == {r.violations[k].severity : k \in DOMAIN r.violations}

\* the highest number of a set of exit codes, 0 for none
Highest(S) == IF S = {} THEN 0 ELSE CHOOSE x \in S : \A y \in S : y <= x

\* C17: the exit code of a file is 2 iff one of its violations is an error,
\* otherwise 1 iff one is a warning, otherwise 0; the process exits with the
\* highest code of its files, with 2 when a file does not exist, and every
\* file that exists is linted.
C17_ExitCodes ==
    /\ \A k \in DOMAIN results :
          /\ results[k].exitCode = 2 <=> "error" \in SeveritiesOf(results[k])
          /\ results[k].exitCode = 1 <=>
                ("error" \notin SeveritiesOf(results[k]) /\ "warning" \in SeveritiesOf(results[k]))
          /\ results[k].exitCode = 0 <=> SeveritiesOf(results[k]) \subseteq {"info", "style"}
    /\ (pc = "exited" /\ files # <<>>) =>
          /\ exited = Highest({results[k].exitCode : k \in DOMAIN results}
                              \cup (IF MissingFiles = {} THEN {} ELSE {2}))
          /\ {results[k].filename : k \in DOMAIN results} = DOMAIN files \ MissingFiles
          /\ Len(results) = Cardinality(DOMAIN files \ MissingFiles)

\* the process has exited with 2 for a missing first file, after it linted a
\* later file whose exit code is 1
C17_Witness ==
    /\ pc = "exited"
    /\ exited = 2
    /\ 1 \in MissingFiles
    /\ \E k \in DOMAIN results : results[k].exitCode = 1 /\ results[k].filename > 1

\* C18: the registries the rules see are those of the config file together
\* with those of the --trusted-registry options.
C18_RegistriesMerged ==
    pc = "rules" =>
        {trustedRegistries[k] : k \in DOMAIN trustedRegistries}
            = {opts.configFile.trustedRegistries[k] : k \in DOMAIN opts.configFile.trustedRegistries}
              \cup {opts.trustedRegistries[k] : k \in DOMAIN opts.trustedRegistries}

(***************************************************************************)
(* Properties of lint on a text without FROM                               *)
(***************************************************************************)
\* C19: for a text of blank and comment lines only, whatever the comments
\* say, parse yields no stage and lint with the default configuration
\* returns the empty list.
C19_NoFromNoViolation ==
    (pc = "linted" /\ \A k \in DOMAIN tokens : tokens[k].type \in {"EMPTY", "COMMENT"}) =>
        /\ Len(ast.stages) = 0
        /\ returned = <<>>

(***************************************************************************)
(* Properties of the continuation loop                                     *)
(***************************************************************************)
\* the text without its trailing white space and the backslash before it
BeforeBackslash(s) ==
    LET e == CHOOSE k \in 0..Len(s) :
                 /\ \A m \in (k + 1)..Len(s) : s[m] \in WhiteSpace
                 /\ k = 0 \/ s[k] \notin WhiteSpace
    IN  SubSeq(s, 1, e - 1)

\* whether the first character of the line that is not white space is '#'
IsCommentLine(l) == Trim(l) # <<>> /\ Head(Trim(l)) = "#"

\* a step of the continuation loop that joins the line numbered i' (0-based)
ContinuationJoin == pc = "continuation" /\ pc' = "continuation" /\ i' = i + 1

\* a joined comment line leaves the text as it is and the backslash in
\* place; any other joined line is appended in place of the backslash
JoinedAsStated ==
    ContinuationJoin =>
        /\ tokens' = tokens
        /\ IF IsCommentLine(lines[i' + 1])
           THEN /\ TrimEnd(BeforeBackslash(fullLine')) = TrimEnd(BeforeBackslash(fullLine))
                /\ fullLine'[Len(fullLine')] = "\\"
           ELSE fullLine' = BeforeBackslash(fullLine) \o <<" ">> \o Trim(lines[i' + 1])

\* no line joined by the continuation loop has a token of its own, and a
\* comment token holds its own line only, the next line starting anew
CommentsStayApart ==
    /\ \A r \in DOMAIN reads : reads[r].kind = "cont" =>
          \A t \in DOMAIN tokens : tokens[t].line # reads[r].idx
    /\ \A t \in DOMAIN tokens : tokens[t].type = "COMMENT" =>
          /\ tokens[t].raw = lines[tokens[t].line]
          /\ tokens[t].value = Trim(lines[tokens[t].line])
          /\ \A r \in DOMAIN reads : reads[r].idx = tokens[t].line + 1 => reads[r].kind # "cont"

\* C21: in the continuation loop a comment line adds no text to the
\* instruction, gives no COMMENT token and does not end the joining; any
\* other line is appended in place of the backslash; a top-level comment
\* line that ends in a backslash does not join the line after it.
C21_ContinuationComments == []CommentsStayApart /\ [][JoinedAsStated]_vars

\* tokenize has returned one instruction that joined a comment line and,
\* after it, a line that is no comment
C21_Witness ==
    /\ pc = "tokenized"
    /\ \E a, b \in DOMAIN reads :
          /\ reads[a].kind = "cont" /\ reads[b].kind = "cont"
          /\ reads[a].tok = reads[b].tok
          /\ reads[a].idx < reads[b].idx
          /\ IsCommentLine(lines[reads[a].idx])
          /\ ~IsCommentLine(lines[reads[b].idx])
          /\ Trim(lines[reads[b].idx]) # <<>>

(***************************************************************************)
(* Properties of the heredoc loop                                          *)
(***************************************************************************)
\* a step of the heredoc loop that consumes the line numbered i (0-based)
HeredocRead == pc = "heredoc" /\ pc' = "heredoc" /\ i' = i + 1

\* the delimiters are closed one at a time and in the order of declaration
ClosedInOrder ==
    HeredocRead =>
        /\ delimIdx' \in {delimIdx, delimIdx + 1}
        /\ delimIdx' = delimIdx + 1 <=> Trim(lines[i + 1]) = heredocDelimiters[delimIdx + 1]
        /\ (\E d \in (delimIdx + 2)..Len(heredocDelimiters) :
               /\ Trim(lines[i + 1]) = heredocDelimiters[d]
               /\ Trim(lines[i + 1]) # heredocDelimiters[delimIdx + 1])
              => delimIdx' = delimIdx

\* when the last delimiter is closed the token is pushed and the line after
\* the closing line is the next the main loop reads
RegionEndsAtLastDelimiter ==
    (pc = "heredoc" /\ pc' = "loop" /\ delimIdx = Len(heredocDelimiters)) =>
        /\ i' = i
        /\ Trim(lines[i]) = heredocDelimiters[delimIdx]
        /\ reads[Len(reads)].idx = i
        /\ Len(tokens') = Len(tokens) + 1
        /\ tokens'[Len(tokens')].line = startLine

\* the line after a closed heredoc region starts the next token
NextTokenAfterRegion ==
    \A a, b \in DOMAIN reads :
        (reads[a].kind = "heredoc" /\ reads[b].idx = reads[a].idx + 1 /\ reads[b].kind # "heredoc")
            => (reads[b].tok = reads[a].tok + 1 /\ reads[b].kind \in {"own", "start"})

\* C22: the heredoc delimiters of an instruction are closed strictly in the
\* order of declaration, a line matching a later delimiter closes nothing
\* while an earlier one is open, and the region ends right after the line
\* that closes the last delimiter, the next line starting the next token.
C22_DelimitersInOrder ==
    []NextTokenAfterRegion /\ [][ClosedInOrder /\ RegionEndsAtLastDelimiter]_vars

\* tokenize has returned one token for an instruction with two delimiters
\* whose body held the second delimiter, then the first, then the second
C22_Witness ==
    /\ pc = "tokenized"
    /\ Len(tokens) = 1
    /\ Len(heredocDelimiters) = 2
    /\ delimIdx = 2
    /\ Len(lines) = 4
    /\ Trim(lines[2]) = heredocDelimiters[2]
    /\ Trim(lines[3]) = heredocDelimiters[1]
    /\ heredocDelimiters[1] # heredocDelimiters[2]

\* C23: a heredoc is closed only by a line that is exactly the delimiter
\* word; a line holding the delimiter with white space around it is body.
C23_ExactDelimiterLine ==
    [][(HeredocRead /\ delimIdx' = delimIdx + 1) => lines[i + 1] = heredocDelimiters[delimIdx + 1]]_vars

(***************************************************************************)
(* Properties of the argument parsers                                      *)
(***************************************************************************)
\* the nodes parse has returned: the FROM of every stage and its body
FromNodes == {ast.stages[n].from : n \in DOMAIN ast.stages}

StageNodes ==
    UNION {{ast.stages[n].instructions[m] : m \in DOMAIN ast.stages[n].instructions} :
              n \in DOMAIN ast.stages}

CopyNodes == {nd \in StageNodes : nd.type \in {COPY, <<"A","D","D">>}}

\* the number of leading words of ws that start with two dashes
RECURSIVE LeadingOptions(_)
LeadingOptions(ws) ==
    IF ws # <<>> /\ Len(ws[1]) >= 2 /\ ws[1][1] = "-" /\ ws[1][2] = "-"
    THEN 1 + LeadingOptions(Tail(ws)) ELSE 0

\* the name of the option word w: the text between the dashes and the '='
OptionName(w) == SubSeq(w, 3, IF Includes(w, "=") THEN IndexFrom(w, "=", 1) - 1 ELSE Len(w))

\* the words of text after its leading option words
Positionals(text) ==
    LET ws == WordsFrom(text, 1) IN SubSeq(ws, LeadingOptions(ws) + 1, Len(ws))

\* C24: parseFlags removes only the leading run of --name and --name=value
\* words and records each of them in the flag map; the positional text begins
\* with the first word that does not start with two dashes, so that the
\* unquoted positional words of a COPY or ADD are its sources followed by its
\* destination (COPY --link src dst: sources [src], destination dst).
C24_FlagsLeavePositional ==
    pc = "parsed" =>
        \A nd \in CopyNodes :
            LET ws == WordsFrom(nd.arguments, 1)
            IN  /\ \A n \in 1..LeadingOptions(ws) : MapHas(nd.flags, OptionName(ws[n]))
                /\ Len(nd.flags) = LeadingOptions(ws)
                /\ (Positionals(nd.arguments) # <<>>
                      /\ Positionals(nd.arguments)[1][1] \notin {"[", "\""})
                   => nd.sources \o << nd.destination >> = Positionals(nd.arguments)

\* the image spec of a FROM node: its first positional word
SpecWord(nd) == Positionals(nd.arguments)[1]

\* the text of s before and after the first c
BeforeFirst(s, c) == SubSeq(s, 1, IndexFrom(s, c, 1) - 1)

AfterFirst(s, c) == SubSeq(s, IndexFrom(s, c, 1) + 1, Len(s))

\* C25: a FROM node never has both a tag and a digest; with an '@' in the spec
\* the image is the text before the first '@' and the digest all the text
\* after it; otherwise with a ':' the image is the text before the first ':'
\* and the tag all the text after it; otherwise both are absent.
C25_TagOrDigest ==
    pc = "parsed" =>
        \A nd \in FromNodes :
            /\ ~(nd.tag # NoString /\ nd.digest # NoString)
            /\ IF Includes(SpecWord(nd), "@")
               THEN /\ nd.image = BeforeFirst(SpecWord(nd), "@")
                    /\ nd.digest = AfterFirst(SpecWord(nd), "@")
                    /\ nd.tag = NoString
               ELSE IF Includes(SpecWord(nd), ":")
               THEN /\ nd.image = BeforeFirst(SpecWord(nd), ":")
                    /\ nd.tag = AfterFirst(SpecWord(nd), ":")
                    /\ nd.digest = NoString
               ELSE /\ nd.image = SpecWord(nd)
                    /\ nd.tag = NoString
                    /\ nd.digest = NoString

\* the positional text of a COPY or ADD node: what parseFlags leaves
PositionalText(nd) == Trim(parseFlags(nd.arguments).rest)

\* the words of a positional text: the elements of a JSON array of strings,
\* and the shell words of any other text
CopyWords(text) ==
    IF parseJsonArray(text).ok THEN parseJsonArray(text).items ELSE parseShellWords(text)

\* C26: the sources of a COPY or ADD followed by its destination are the words
\* of its positional text, the destination the last of them; the elements of a
\* valid JSON array of strings take precedence over the shell words; without a
\* word the sources are empty and the destination is the empty string.
C26_SourcesThenDestination ==
    pc = "parsed" =>
        \A nd \in CopyNodes :
            /\ CopyWords(PositionalText(nd)) # <<>>
                  => nd.sources \o << nd.destination >> = CopyWords(PositionalText(nd))
            /\ CopyWords(PositionalText(nd)) = <<>>
                  => nd.sources = <<>> /\ nd.destination = <<>>
            /\ PositionalText(nd) = <<"[","\"","a","\"",",","\"","b","\"","]">>
                  => nd.sources = << <<"a">> >> /\ nd.destination = <<"b">>
            /\ PositionalText(nd) = <<"a"," ","b"," ","c">>
                  => nd.sources = << <<"a">>, <<"b">> >> /\ nd.destination = <<"c">>

\* parse has returned a COPY whose positional text is a JSON array of two strings
C26_Witness ==
    /\ pc = "parsed"
    /\ \E nd \in CopyNodes :
          /\ nd.type = COPY
          /\ parseJsonArray(PositionalText(nd)).ok
          /\ Len(nd.sources) = 1
          /\ nd.destination = <<"b">>

PairNodes == {nd \in StageNodes : nd.type \in {<<"E","N","V">>, <<"L","A","B","E","L">>}}

\* the legacy pair of a payload: its first word, and the rest of the text
\* without one layer of surrounding quotes
LegacyPair(payload) ==
    LET e == NonSpaceEnd(payload, 1)
    IN  [key |-> SubSeq(payload, 1, e),
         value |-> StripValueQuotes(Trim(SubSeq(payload, e + 1, Len(payload))))]

\* the words of the payload are all of the form key=value without quotes
PlainPairs(payload) ==
    \A w \in {WordsFrom(payload, 1)[n] : n \in DOMAIN WordsFrom(payload, 1)} :
        /\ IndexFrom(w, "=", 1) > 1
        /\ w[1] \in IdentStart
        /\ \A n \in DOMAIN w : w[n] \notin {"\"", "'"}

\* C27: for an ENV and for a LABEL alike, a payload of two or more words
\* without any key=value pair gives the single legacy pair, and a payload of
\* key=value words gives their pairs in source order.
C27_PairsOrLegacy ==
    pc = "parsed" =>
        \A nd \in PairNodes :
            LET payload == Trim(nd.arguments)
                ws      == WordsFrom(payload, 1)
            IN  /\ (~Includes(payload, "=") /\ Len(ws) >= 2)
                      => nd.pairs = << LegacyPair(payload) >>
                /\ (ws # <<>> /\ PlainPairs(payload))
                      => nd.pairs = [n \in DOMAIN ws |->
                                        [key |-> BeforeFirst(ws[n], "="), value |-> AfterFirst(ws[n], "=")]]

(***************************************************************************)
(* Properties of the ARG substitution of DL3006                            *)
(***************************************************************************)
\* DL3006.check computes `resolved` for the FROM f
ReachesResolved(a, f) ==
    /\ f.image # Scratch
    /\ ToLowerCase(f.image) \notin StageAliases(a)
    /\ ~Truthy(f.tag) /\ ~Truthy(f.digest)
    /\ Includes(f.image, "$")
    /\ ~DefaultSkips(a, f)

\* C28: the substitution replaces every $NAME or ${NAME} of a global ARG with
\* a default by that default, in one pass, and leaves every fragment whose
\* NAME is undeclared or has no default textually unchanged.
C28_SinglePassSubstitution ==
    pc = "DL3006.done" =>
        \A s \in DOMAIN ast.stages :
            LET image == ast.stages[s].from.image
            IN  ReachesResolved(ast, ast.stages[s].from) =>
                  /\ (\A v \in VarNames(image) : ~Truthy(ArgDefault(ast, v)))
                        => Resolved(ast, image) = image
                  /\ (\A v \in VarNames(image) : Truthy(ArgDefault(ast, v)))
                        => Resolved(ast, image)
                             = ReplaceVars(image, 1, [v \in VarNames(image) |-> ArgDefault(ast, v)])

(***************************************************************************)
(* Properties of the platform placeholders of DL3006                       *)
(***************************************************************************)
PlatformArgs ==
    { <<"T","A","R","G","E","T","A","R","C","H">>, <<"T","A","R","G","E","T","O","S">>,
      <<"T","A","R","G","E","T","P","L","A","T","F","O","R","M">>, <<"B","U","I","L","D","A","R","C","H">>,
      <<"B","U","I","L","D","O","S">>, <<"T","A","R","G","E","T","V","A","R","I","A","N","T">> }

\* some combination of the known values of the placeholders of the template
\* is, ignoring case, a declared alias
SomeCombinationIsAlias(template, aliases) ==
    \E val \in [VarNames(template) -> UNION {PLATFORM_ARG_VALUES[v] : v \in PlatformArgs}] :
        /\ \A v \in VarNames(template) : val[v] \in PLATFORM_ARG_VALUES[v]
        /\ ToLowerCase(ReplaceVars(template, 1, val)) \in aliases

\* C29: the platform expansion always answers; it takes a FROM target for a
\* stage reference (DL3006 reports nothing) iff every variable left after the
\* ARG substitution is one of the six platform ARGs and some combination of
\* their known values is, ignoring case, a declared alias; with any other
\* variable left it answers false (DL3006 reports the FROM).
C29_PlatformPlaceholders ==
    /\ pc # "DL3006.threw"
    /\ pc = "DL3006.done" =>
          \A s \in DOMAIN ast.stages :
              LET f        == ast.stages[s].from
                  resolved == Resolved(ast, f.image)
              IN  ReachesPlatformMatch(ast, f) =>
                      (DL3006At(f.line) = 0
                          <=> /\ VarNames(resolved) \subseteq PlatformArgs
                              /\ SomeCombinationIsAlias(resolved, StageAliases(ast)))

(***************************************************************************)
(* Properties of lint: the violations as a multiset                        *)
(***************************************************************************)
RECURSIVE BagOfSeq(_)
BagOfSeq(q) == IF q = <<>> THEN EmptyBag ELSE SetToBag({Head(q)}) (+) BagOfSeq(Tail(q))

\* the objects the invoked checks returned, as they are when lint returns
RECURSIVE EmittedObjects(_)
EmittedObjects(e) == IF e > Len(emitted) THEN <<>> ELSE emitted[e].objs \o EmittedObjects(e + 1)

\* the rules lint has to invoke: the registered rules outside the ignore list
Invoked == LET Runs(id) == ~InSeq(id, config.ignore) IN SelectSeq(ALL_RULES, Runs)

ReturnedAsEmitted ==
    pc = "linted" =>
        /\ [e \in DOMAIN emitted |-> emitted[e].rule] = Invoked
        /\ \A e \in DOMAIN emitted :
              /\ Len(emitted[e].objs) = Len(checks[emitted[e].rule].out)
              /\ \A n \in DOMAIN emitted[e].objs :
                    Key(emitted[e].objs[n]) = Key(checks[emitted[e].rule].out[n])
        /\ BagOfSeq(returned) = BagOfSeq(Kept(EmittedObjects(1)))

LintLeavesAst == pc \in {"parsed", "rules"} => ast' = ast

\* C30: the violations lint returns are, as a multiset, the violations the
\* checks of the registered rules outside the ignore list returned, without
\* exactly those whose line has an inline ignore of their rule id: none is
\* duplicated, invented or dropped otherwise; lint leaves the AST as it was.
C30_ReturnedMultiset == []ReturnedAsEmitted /\ [][LintLeavesAst]_vars

\* lint has returned two violations of one rule at one line after it dropped
\* a violation for an inline ignore
C30_Witness ==
    /\ pc = "linted"
    /\ \E e \in DOMAIN emitted : \E n \in DOMAIN emitted[e].objs : InlineIgnored(emitted[e].objs[n])
    /\ \E a, b \in DOMAIN returned :
          a # b /\ returned[a].line = returned[b].line /\ returned[a].rule = returned[b].rule

==========================================================================
